---- MODULE Spec2Model ----
(***************************************************************************)
(* A model of git-fat (src/src/git_utils.py): the placeholder codec, the   *)
(* object store under <git-dir>/fat/objects, the clean and smudge filters, *)
(* and the maintenance commands built on them.                             *)
(*                                                                         *)
(* Text is a sequence of one-character strings, so that len(), slicing,    *)
(* startswith() and split() are computed as Python computes them.          *)
(***************************************************************************)
EXTENDS Integers, Sequences, FiniteSets, TLC

(***************************************************************************)
(* Text primitives                                                         *)
(***************************************************************************)

\* The characters of the modelled texts; ord() is a character's place in it.
Alphabet ==
    << "0", "1", "2", "3", "4", "5", "6", "7", "8", "9",
       "a", "b", "c", "d", "e", "f",
       "#", "$", " ", "\n", "g", "i", "t", "-", "h", "l", "o", "x", "y", "z",
       "u", "m", "p" >>

ord(ch) == CHOOSE i \in 1..Len(Alphabet) : Alphabet[i] = ch

HexDigits == << "0", "1", "2", "3", "4", "5", "6", "7", "8", "9",
                "a", "b", "c", "d", "e", "f" >>

DecDigits == << "0", "1", "2", "3", "4", "5", "6", "7", "8", "9" >>

\* str.split() with no argument splits on runs of whitespace.
Whitespace == { " ", "\n" }

Repeat(ch, k) == [i \in 1..k |-> ch]

\* "%d" % n for n >= 0
RECURSIVE DecStr(_)
DecStr(n) ==
    IF n < 10 THEN << DecDigits[n + 1] >>
    ELSE DecStr(n \div 10) \o << DecDigits[(n % 10) + 1] >>

\* The field width of "%20d" in encode_v2.
SizeWidth == 20

\* "%d" in place of "%20d": the byte count is not padded.
FormatSize_unpadded(n) == DecStr(n)

\* "%20d" % n: right-justified in SizeWidth columns, never truncated.
FormatSize(n) ==
    LET d == DecStr(n)
    IN  IF Len(d) >= SizeWidth THEN d ELSE Repeat(" ", SizeWidth - Len(d)) \o d

startswith(string, prefix) ==
    /\ Len(string) >= Len(prefix)
    /\ SubSeq(string, 1, Len(prefix)) = prefix

\* string.split(): the maximal runs of non-whitespace, in order.
split(s) ==
    LET starts == { i \in 1..Len(s) :
                      /\ s[i] \notin Whitespace
                      /\ (i = 1 \/ s[i - 1] \in Whitespace) }
        stop(i) == CHOOSE j \in i..Len(s) :
                      /\ \A k \in i..j : s[k] \notin Whitespace
                      /\ (j = Len(s) \/ s[j + 1] \in Whitespace)
        nth(k)  == CHOOSE i \in starts : Cardinality({ j \in starts : j < i }) = k - 1
    IN  [k \in 1..Cardinality(starts) |-> SubSeq(s, nth(k), stop(nth(k)))]

\* int(token) succeeds on a run of decimal digits (the modelled texts hold no
\* signs or underscores); anything else is a ValueError.
IsInt(tok) ==
    /\ tok # << >>
    /\ \A i \in 1..Len(tok) : \E k \in 1..10 : DecDigits[k] = tok[i]

RECURSIVE IntOf(_)
IntOf(tok) ==
    IF tok = << >> THEN 0
    ELSE 10 * IntOf(SubSeq(tok, 1, Len(tok) - 1))
         + ((CHOOSE k \in 1..10 : DecDigits[k] = tok[Len(tok)]) - 1)

(***************************************************************************)
(* hashlib.new("sha1"): a streaming hash.  The 160-bit compression function *)
(* is replaced by a sum of the characters weighted by their place in the   *)
(* stream, which is collision-free on the modelled contents; the hasher    *)
(* keeps the sum and the count of characters fed, so that update() over    *)
(* the blocks of a stream gives the digest of the whole stream, as SHA-1.  *)
(***************************************************************************)
HashMod == 1048576

Weight(k) == ((k * k + 3 * k) % 89) + 1

RECURSIVE WeightedSum(_, _, _, _)
WeightedSum(s, off, lo, hi) ==
    IF lo > hi THEN 0
    ELSE IF lo = hi THEN ord(s[lo]) * Weight(off + lo)
    ELSE WeightedSum(s, off, lo, (lo + hi) \div 2)
         + WeightedSum(s, off, ((lo + hi) \div 2) + 1, hi)

sha1_new == [sum |-> 0, n |-> 0]

\* h.update(block)
sha1_update(h, block) ==
    [sum |-> (h.sum + WeightedSum(block, h.n, 1, Len(block))) % HashMod,
     n   |-> h.n + Len(block)]

\* The length of a hex digest: 40 characters.
DigestLen == 40

Pow16(k) == IF k = 0 THEN 1 ELSE IF k = 1 THEN 16 ELSE IF k = 2 THEN 256
            ELSE IF k = 3 THEN 4096 ELSE 65536

\* h.hexdigest(): the count in the two hex digits before the last five, which
\* hold the sum.
hexdigest(h) ==
    [i \in 1..DigestLen |->
        IF DigestLen - i > 6 THEN "0"
        ELSE IF DigestLen - i > 4
             THEN HexDigits[((h.n \div Pow16(DigestLen - i - 5)) % 16) + 1]
             ELSE HexDigits[((h.sum \div Pow16(DigestLen - i)) % 16) + 1]]

\* hashlib.sha1(content).hexdigest()
sha1(content) == hexdigest(sha1_update(sha1_new, content))

(***************************************************************************)
(* The placeholder codec                                                   *)
(***************************************************************************)
cookie == << "#", "$", "#", " ", "g", "i", "t", "-", "f", "a", "t", " " >>

\* Python's None for the byte count of a V1 placeholder.
None == -1

\* "#$# git-fat %s\n" % (digest,)
encode_v1(digest, bytes) == cookie \o digest \o << "\n" >>

\* encode_v2 that leaves the byte count out.
encode_v2_nosize(digest, bytes) == cookie \o digest \o << "\n" >>

\* "#$# git-fat %s %20d\n" % (digest, bytes); bytes = None is a TypeError,
\* which the callers test with encode_raises before they use the text.
encode_v2(digest, bytes) ==
    cookie \o digest \o << " " >> \o FormatSize(bytes) \o << "\n" >>

\* encode that writes the legacy form whatever the version.
encode_legacy(version, digest, bytes) == encode_v1(digest, bytes)

\* GIT_FAT_VERSION == "1" selects the legacy form for writes.
encode(version, digest, bytes) ==
    IF version = 1 THEN encode_v1(digest, bytes) ELSE encode_v2(digest, bytes)

\* "%20d" % None raises TypeError.
encode_raises(version, bytes) == version # 1 /\ bytes = None

\* decode(string, noraise): tag "ok" with the digest and byte count, "none"
\* for the (None, None) of noraise, or the exception raised.
decode_parts(parts) ==
    IF Len(parts) = 0
    THEN [tag |-> "IndexError", digest |-> << >>, bytes |-> None]
    ELSE IF Len(parts) > 1
         THEN IF IsInt(parts[2])
              THEN [tag |-> "ok", digest |-> parts[1], bytes |-> IntOf(parts[2])]
              ELSE [tag |-> "ValueError", digest |-> << >>, bytes |-> None]
         ELSE [tag |-> "ok", digest |-> parts[1], bytes |-> None]

decode(string, noraise) ==
    IF startswith(string, cookie)
    THEN decode_parts(split(SubSeq(string, Len(cookie) + 1, Len(string))))
    ELSE IF noraise
         THEN [tag |-> "none", digest |-> << >>, bytes |-> None]
         ELSE [tag |-> "DecodeError", digest |-> << >>, bytes |-> None]

\* _calculate_magic_len: the length of a placeholder in the version written.
dummy_hash == sha1(<< "d", "u", "m", "m", "y" >>)

MagicLenV1 == Len(encode_v1(dummy_hash, 5))

MagicLenV2 == Len(encode_v2(dummy_hash, 5))

magiclen(version) == IF version = 1 THEN MagicLenV1 ELSE MagicLenV2

\* _calculate_all_magic_lens: one length per version.
magiclens == { MagicLenV1, MagicLenV2 }

(***************************************************************************)
(* Streams and blocks                                                      *)
(***************************************************************************)

\* The number of characters readblocks asks of the stream at a time.  Any
\* size above the longest placeholder gives the same first-block test.
BLOCK_SIZE == 80

\* readblocks(stream): the stream in blocks of BLOCK_SIZE, the last one
\* shorter, none empty.
RECURSIVE readblocks(_)
readblocks(stream) ==
    IF stream = << >> THEN << >>
    ELSE IF Len(stream) <= BLOCK_SIZE THEN << stream >>
    ELSE << SubSeq(stream, 1, BLOCK_SIZE) >>
         \o readblocks(SubSeq(stream, BLOCK_SIZE + 1, Len(stream)))

\* stream.read(n)
read(stream, n) == SubSeq(stream, 1, IF Len(stream) < n THEN Len(stream) ELSE n)

(***************************************************************************)
(* The contents the filters are run on                                     *)
(***************************************************************************)
Hello == << "h", "e", "l", "l", "o" >>

Empty == << >>

\* How far the multi-block content runs past one block.
BigExtra == 3

Big == Repeat("x", BLOCK_SIZE + BigExtra)

\* Placeholders of Hello in both versions.
HelloV1 == encode_v1(sha1(Hello), Len(Hello))

HelloV2 == encode_v2(sha1(Hello), Len(Hello))

\* The prefix followed by one token: shorter than any placeholder.
CookieX == cookie \o << "x" >>

\* As long as a V2 placeholder, without the prefix.
Junk == Repeat("y", Len(HelloV2))

\* As long as a V2 placeholder, the prefix followed by blanks only.
Blank == cookie \o Repeat(" ", Len(HelloV2) - Len(cookie))

\* As long as a V2 placeholder: the prefix and one token that is no digest.
Fake == cookie \o Repeat("x", Len(HelloV2) - Len(cookie))

\* As long as a V2 placeholder: the prefix and two words, the second no number.
Words == cookie \o << "a", " ", "b" >> \o Repeat(" ", Len(HelloV2) - Len(cookie) - 3)

\* A V2 placeholder followed by more data.
HelloV2z == HelloV2 \o << "z" >>

\* A byte that starts no UTF-8 sequence, and a file of such bytes as long as
\* a V2 placeholder.
NonUtf8 == "\\xff"

Binary == Repeat(NonUtf8, Len(HelloV2))

\* data.decode("utf-8") raises UnicodeDecodeError
utf8_raises(data) == \E i \in 1..Len(data) : data[i] = NonUtf8

\* What clean is run on.
Contents == { Hello, Empty, Big, HelloV1, HelloV2, Junk, Blank, Fake }

Versions == { 1, 2 }

(***************************************************************************)
(* The texts of the model.  Their decoding is worked out once and looked   *)
(* up afterwards; any other text is decoded where it is met, so the table  *)
(* changes no result.                                                      *)
(***************************************************************************)
TextsBase ==
    Contents \cup { CookieX, HelloV2z, Words }
        \cup { encode(v, sha1(c), Len(c)) : v \in Versions, c \in Contents }

TextsOf(base) ==
    (base \cup { read(x, n) : x \in base, n \in magiclens }
          \cup { read(x, BLOCK_SIZE) : x \in base }
          \cup { SubSeq(x, BLOCK_SIZE + 1, Len(x)) : x \in base }) \ { << >> }

Texts == TextsOf(TextsBase)

DecodeTable == [x \in Texts |-> [strict |-> decode(x, FALSE), lax |-> decode(x, TRUE)]]

lookup(table, string, noraise) ==
    IF string \in DOMAIN table
    THEN IF noraise THEN table[string].lax ELSE table[string].strict
    ELSE decode(string, noraise)

decoded(string, noraise) == lookup(DecodeTable, string, noraise)

\* A data hash taken over the first block read alone.
data_hash_firstblock(stream) ==
    hexdigest(IF stream = << >> THEN sha1_new ELSE sha1_update(sha1_new, Head(readblocks(stream))))

\* h = hashlib.new("sha1"); for block in readblocks(stream): h.update(block);
\* h.hexdigest()
RECURSIVE update_all(_, _)
update_all(h, blocks) ==
    IF blocks = << >> THEN h ELSE update_all(sha1_update(h, Head(blocks)), Tail(blocks))

data_hash(stream) == hexdigest(update_all(sha1_new, readblocks(stream)))

(***************************************************************************)
(* State                                                                   *)
(***************************************************************************)
VARIABLES
    objdir,     \* <git-dir>/fat/objects: file name -> [data, mode]
    repo,       \* the blobs reachable from HEAD and from all refs
    clean,      \* the filter-clean processes: their place and locals
    gc,         \* the gc process: its place and locals
    last,       \* the command that ran to its end last, and what it wrote
    worktree,   \* the tracked files: path -> [data, mtime, index]
    remote,     \* the object directory of rsync.remote: file name -> [data, mode]
    nops,       \* commands started so far, counted where a run is bounded
    config,     \* .git/config: filter.fat.clean and filter.fat.smudge
    codec,      \* one call of encode and the decode of what it gave
    pipe,       \* one call of referenced_objects: its children, threads and pipes
    ifilter     \* one run of index-filter: the index, its cache and the pipeline

vars == << objdir, repo, clean, gc, last, worktree, remote, nops, config, codec, pipe,
          ifilter >>

\* The filter-clean processes git may run side by side.
Procs == { 1, 2 }

\* Files in a directory
exists(dir, name) == name \in DOMAIN dir

remove(dir, name) == [n \in DOMAIN dir \ { name } |-> dir[n]]

write(dir, name, file) == [n \in DOMAIN dir \cup { name } |-> IF n = name THEN file ELSE dir[n]]

\* os.rename(src, dst): dst is replaced in one step.
rename(dir, src, dst) ==
    [n \in (DOMAIN dir \ { src }) \cup { dst } |-> IF n = dst THEN dir[src] ELSE dir[n]]

\* tempfile.mkstemp(dir=objdir): a name no file of the directory has, the
\* file created empty with mode 0600.  The name is drawn at random, so it is
\* never one a running process still holds (held) after its file was removed.
TmpName(k) == << "t", "m", "p", DecDigits[k] >>

TmpNames == { TmpName(k) : k \in 1..10 }

\* mkstemp replaced by one fixed name in the object directory.
mkstemp_fixed(dir, held) == TmpName(1)

mkstemp(dir, held) ==
    TmpName(CHOOSE k \in 1..10 :
                /\ TmpName(k) \notin DOMAIN dir \cup held
                /\ \A j \in 1..(k - 1) : TmpName(j) \in DOMAIN dir \cup held)

\* int("444", 8) & ~umask(), under the usual umask 022
ChmodMode == "444"

IsDigest(name) ==
    /\ Len(name) = DigestLen
    /\ \A i \in 1..Len(name) : name[i] \in { HexDigits[k] : k \in 1..16 }

\* catalog_objects
catalog_objects(dir) == DOMAIN dir

(***************************************************************************)
(* referenced_objects: the digests of the placeholder blobs of a history.  *)
(* A blob is a candidate when its size is a magic length, and is counted   *)
(* when it decodes.                                                        *)
(***************************************************************************)
filter_gitfat_candidates(blobs) == { b \in blobs : Len(b) \in magiclens }

referenced_objects(rev) ==
    { decoded(b, FALSE).digest :
        b \in { c \in filter_gitfat_candidates(rev) : decoded(c, FALSE).tag = "ok" } }

\* The exceptions that "except GitFat.DecodeError" does not catch, those of
\* data.decode("utf-8") and of decode: one of them, if there is any, ends
\* referenced_objects and its caller.
referenced_raised(rev) ==
    { IF utf8_raises(b) THEN "UnicodeDecodeError" ELSE decoded(b, FALSE).tag :
        b \in { c \in filter_gitfat_candidates(rev) :
                  \/ utf8_raises(c)
                  \/ decoded(c, FALSE).tag \in { "IndexError", "ValueError" } } }

(***************************************************************************)
(* filter_clean                                                            *)
(***************************************************************************)
CleanIdle ==
    [ pc |-> "idle", instream |-> << >>, version |-> 2, blocks |-> << >>,
      firstblock |-> TRUE, ishanging |-> FALSE, cached |-> FALSE,
      h |-> sha1_new, bytes |-> 0, tmpname |-> << >>, digest |-> << >>,
      out |-> << >>, exc |-> "" ]

LastNone ==
    [ op |-> "none", version |-> 2, all |-> FALSE, input |-> << >>, out |-> << >>,
      status |-> "", exit |-> 0,
      garbage |-> { }, orphans |-> { }, files |-> { }, corrupted |-> { },
      rsync |-> << >>, utime |-> { }, args |-> << >> ]

Quiet ==
    /\ \A p \in Procs : clean[p].pc = "idle"
    /\ gc.pc = "idle"
    /\ last.op = "none"

\* decode_clean that decodes strictly and swallows the failure: nothing is
\* ever taken for a placeholder.
decode_clean_never(body) == [tag |-> "none", digest |-> << >>, bytes |-> None]

\* decode_clean(body): the digest when body decodes, None otherwise; the test
\* of line 183 is on its truth.
decode_clean(body) == decoded(body, TRUE)

\* cmd_filter_clean up to the loop: setup(), the hasher, mkstemp.
filter_clean_start(p, content, version) ==
    /\ clean[p].pc = "idle"
    /\ \A q \in Procs : q < p => clean[q].pc # "idle"
    /\ LET held    == { clean[q].tmpname : q \in Procs }
           tmpname == mkstemp(objdir, held)
       IN  /\ objdir' = write(objdir, tmpname, [data |-> << >>, mode |-> "600"])
           /\ clean' = [clean EXCEPT ![p] =
                  [CleanIdle EXCEPT !.pc = "loop", !.instream = content,
                                    !.version = version, !.tmpname = tmpname,
                                    !.blocks = readblocks(content)]]
    /\ UNCHANGED << repo, gc, last, worktree, remote, config, codec, pipe, ifilter >>

\* One turn of "for block in readblocks(instream)", or the end of the loop:
\* flush, close and the digest.
filter_clean_block(p) ==
    LET c == clean[p] IN
    /\ c.pc = "loop"
    /\ IF c.blocks = << >>
       THEN /\ clean' = [clean EXCEPT ![p].digest = hexdigest(c.h),
                                      ![p].pc = IF c.ishanging THEN "finally" ELSE "exists"]
            /\ UNCHANGED objdir
       ELSE LET block == Head(c.blocks)
                probe == c.firstblock /\ Len(block) = magiclen(c.version)
                d     == decode_clean(SubSeq(block, 1, magiclen(c.version)))
            IN  IF probe /\ d.tag \in { "IndexError", "ValueError" }
                THEN /\ clean' = [clean EXCEPT ![p].exc = d.tag, ![p].pc = "finally"]
                     /\ UNCHANGED objdir
                ELSE LET hanging == c.ishanging \/ (probe /\ d.tag = "ok" /\ d.digest # << >>)
                     IN  /\ clean' = [clean EXCEPT
                                ![p].firstblock = FALSE,
                                ![p].ishanging = hanging,
                                ![p].h = sha1_update(c.h, block),
                                ![p].bytes = c.bytes + Len(block),
                                ![p].blocks = Tail(c.blocks),
                                ![p].out = IF hanging THEN c.out \o block ELSE c.out]
                         /\ IF hanging
                            THEN UNCHANGED objdir
                            ELSE IF exists(objdir, c.tmpname)
                                 THEN objdir' = [objdir EXCEPT ![c.tmpname].data = @ \o block]
                                 ELSE UNCHANGED objdir
    /\ UNCHANGED << repo, gc, last, worktree, remote, nops, config, codec, pipe, ifilter >>

\* os.path.exists(objfile)
filter_clean_exists(p) ==
    LET c == clean[p] IN
    /\ c.pc = "exists"
    /\ clean' = [clean EXCEPT ![p].pc = IF exists(objdir, c.digest) THEN "remove" ELSE "chmod"]
    /\ UNCHANGED << objdir, repo, gc, last, worktree, remote, nops, config, codec, pipe, ifilter >>

\* The branch of the blob already in the store, with "cached = True" left
\* out of it.
filter_clean_remove_uncached(p) ==
    LET c == clean[p] IN
    /\ c.pc = "remove"
    /\ IF exists(objdir, c.tmpname)
       THEN /\ objdir' = remove(objdir, c.tmpname)
            /\ clean' = [clean EXCEPT ![p].pc = "write"]
       ELSE /\ clean' = [clean EXCEPT ![p].exc = "OSError", ![p].pc = "finally"]
            /\ UNCHANGED objdir
    /\ UNCHANGED << repo, gc, last, worktree, remote, nops, config, codec, pipe, ifilter >>

\* The blob is in the store already: os.remove(tmpname); cached = True
filter_clean_remove(p) ==
    LET c == clean[p] IN
    /\ c.pc = "remove"
    /\ IF exists(objdir, c.tmpname)
       THEN /\ objdir' = remove(objdir, c.tmpname)
            /\ clean' = [clean EXCEPT ![p].cached = TRUE, ![p].pc = "write"]
       ELSE /\ clean' = [clean EXCEPT ![p].exc = "OSError", ![p].pc = "finally"]
            /\ UNCHANGED objdir
    /\ UNCHANGED << repo, gc, last, worktree, remote, nops, config, codec, pipe, ifilter >>

\* os.chmod(tmpname, 0444 & ~umask)
filter_clean_chmod(p) ==
    LET c == clean[p] IN
    /\ c.pc = "chmod"
    /\ IF exists(objdir, c.tmpname)
       THEN /\ objdir' = [objdir EXCEPT ![c.tmpname].mode = ChmodMode]
            /\ clean' = [clean EXCEPT ![p].pc = "rename"]
       ELSE /\ clean' = [clean EXCEPT ![p].exc = "OSError", ![p].pc = "finally"]
            /\ UNCHANGED objdir
    /\ UNCHANGED << repo, gc, last, worktree, remote, nops, config, codec, pipe, ifilter >>

\* os.rename(tmpname, objfile); cached = True
filter_clean_rename(p) ==
    LET c == clean[p] IN
    /\ c.pc = "rename"
    /\ IF exists(objdir, c.tmpname)
       THEN /\ objdir' = rename(objdir, c.tmpname, c.digest)
            /\ clean' = [clean EXCEPT ![p].cached = TRUE, ![p].pc = "write"]
       ELSE /\ clean' = [clean EXCEPT ![p].exc = "OSError", ![p].pc = "finally"]
            /\ UNCHANGED objdir
    /\ UNCHANGED << repo, gc, last, worktree, remote, nops, config, codec, pipe, ifilter >>

\* filter_clean_write with the legacy placeholder written whatever the version.
filter_clean_write_legacy(p) ==
    LET c == clean[p] IN
    /\ c.pc = "write"
    /\ clean' = [clean EXCEPT ![p].out = c.out \o encode_v1(c.digest, c.bytes),
                              ![p].pc = "finally"]
    /\ UNCHANGED << objdir, repo, gc, last, worktree, remote, nops, config, codec, pipe, ifilter >>

\* outstreamclean.write(self.encode(digest, bytes))
filter_clean_write(p) ==
    LET c == clean[p] IN
    /\ c.pc = "write"
    /\ clean' = [clean EXCEPT ![p].out = c.out \o encode(c.version, c.digest, c.bytes),
                              ![p].pc = "finally"]
    /\ UNCHANGED << objdir, repo, gc, last, worktree, remote, nops, config, codec, pipe, ifilter >>

\* An I/O failure of the step the process is at (a block write, chmod, rename,
\* the placeholder write): the exception unwinds to the finally clause.
filter_clean_ioerror(p) ==
    /\ clean[p].pc \in { "loop", "chmod", "rename", "write" }
    /\ clean' = [clean EXCEPT ![p].exc = "IOError", ![p].pc = "finally"]
    /\ UNCHANGED << objdir, repo, gc, last, worktree, remote, nops, config, codec, pipe, ifilter >>

\* filter_clean without its finally clause.
filter_clean_finally_missing(p) ==
    /\ clean[p].pc = "finally"
    /\ clean' = [clean EXCEPT ![p].pc = "done"]
    /\ UNCHANGED << objdir, repo, gc, last, worktree, remote, nops, config, codec, pipe, ifilter >>

\* finally: if not cached: os.remove(tmpname)
filter_clean_finally(p) ==
    LET c == clean[p] IN
    /\ c.pc = "finally"
    /\ IF c.cached
       THEN /\ clean' = [clean EXCEPT ![p].pc = "done"]
            /\ UNCHANGED objdir
       ELSE IF exists(objdir, c.tmpname)
            THEN /\ objdir' = remove(objdir, c.tmpname)
                 /\ clean' = [clean EXCEPT ![p].pc = "done"]
            ELSE /\ clean' = [clean EXCEPT ![p].exc = "OSError", ![p].pc = "done"]
                 /\ UNCHANGED objdir
    /\ UNCHANGED << repo, gc, last, worktree, remote, nops, config, codec, pipe, ifilter >>

\* The process ends.
filter_clean_return(p) ==
    /\ clean[p].pc = "done"
    /\ clean' = [clean EXCEPT ![p] = CleanIdle]
    /\ UNCHANGED << objdir, repo, gc, last, worktree, remote, nops, config, codec, pipe, ifilter >>

\* The process is killed where it stands: no handler runs.
filter_clean_abort(p) ==
    /\ clean[p].pc \notin { "idle", "done" }
    /\ clean' = [clean EXCEPT ![p] = CleanIdle]
    /\ UNCHANGED << objdir, repo, gc, last, worktree, remote, nops, config, codec, pipe, ifilter >>

(***************************************************************************)
(* cmd_filter_smudge                                                       *)
(***************************************************************************)

\* decode_stream(stream): the decoded preamble, or the whole input when the
\* preamble raises DecodeError; other exceptions pass through.
decode_stream(stream, version) == decoded(read(stream, magiclen(version)), FALSE)

\* What cmd_filter_smudge writes to stdout and how it ends once
\* decode_stream has given r, for the input stdin against the store dir.
smudge_decoded(dir, stdin, version, r) ==
    IF r.tag = "ok"
    THEN IF exists(dir, r.digest)
         THEN [out |-> dir[r.digest].data, status |-> "ok"]
         ELSE IF encode_raises(version, r.bytes)
              THEN [out |-> << >>, status |-> "TypeError"]
              ELSE [out |-> encode(version, r.digest, r.bytes), status |-> "ok"]
    ELSE IF r.tag = "DecodeError"
         THEN [out |-> stdin, status |-> "ok"]
         ELSE [out |-> << >>, status |-> r.tag]

\* smudge that opens the blob in another directory than the store: it finds
\* none.
smudge_lost(dir, stdin, version) ==
    smudge_decoded(<< >>, stdin, version, decode_stream(stdin, version))

\* What cmd_filter_smudge writes to stdout and how it ends, for the input
\* stdin against the store dir.
smudge(dir, stdin, version) ==
    smudge_decoded(dir, stdin, version, decode_stream(stdin, version))

\* cmd_filter_smudge that drops from the store a blob it has restored.
cmd_filter_smudge_consuming(stdin, version) ==
    /\ \E r \in { decode_stream(stdin, version) } :
       \E w \in { smudge_decoded(objdir, stdin, version, r) } :
          /\ last' = [LastNone EXCEPT !.op = "smudge", !.version = version, !.input = stdin,
                                      !.out = w.out, !.status = w.status]
          /\ objdir' = IF r.tag = "ok" /\ exists(objdir, r.digest)
                       THEN remove(objdir, r.digest) ELSE objdir
    /\ UNCHANGED << repo, clean, gc, worktree, remote, config, codec, pipe, ifilter >>

cmd_filter_smudge(stdin, version) ==
    /\ \E w \in { smudge(objdir, stdin, version) } :
          last' = [LastNone EXCEPT !.op = "smudge", !.version = version, !.input = stdin,
                                  !.out = w.out, !.status = w.status]
    /\ UNCHANGED << objdir, repo, clean, gc, worktree, remote, config, codec, pipe, ifilter >>

(***************************************************************************)
(* cmd_status, cmd_verify, cmd_gc                                          *)
(***************************************************************************)
rev_of(all) == IF all THEN repo.all ELSE repo.HEAD

cmd_status(all) ==
    LET catalog    == catalog_objects(objdir)
        referenced == referenced_objects(rev_of(all))
    IN  /\ IF referenced_raised(rev_of(all)) # { }
           THEN \E e \in referenced_raised(rev_of(all)) :
                   last' = [LastNone EXCEPT !.op = "status", !.all = all, !.status = e]
           ELSE last' = [LastNone EXCEPT !.op = "status", !.all = all,
                                    !.garbage = catalog \ referenced,
                                    !.orphans = referenced \ catalog,
                                    !.files = IF all THEN referenced ELSE { },
                                    !.status = "ok"]
        /\ UNCHANGED << objdir, repo, clean, gc, worktree, remote, config, codec, pipe, ifilter >>

cmd_verify ==
    LET corrupted_objects ==
            { << obj, data_hash(objdir[obj].data) >> :
                obj \in { o \in catalog_objects(objdir) : o # data_hash(objdir[o].data) } }
    IN  /\ last' = [LastNone EXCEPT !.op = "verify",
                                    !.corrupted = corrupted_objects,
                                    !.status = IF corrupted_objects # { } THEN "exit 1" ELSE "ok"]
        /\ UNCHANGED << objdir, repo, clean, gc, worktree, remote, config, codec, pipe, ifilter >>

\* garbage is the set cmd_gc works out; todo is what its loop has not
\* reached yet.
GcIdle == [ pc |-> "idle", garbage |-> { }, todo |-> { }, status |-> "" ]

\* cmd_gc with everything the store lists taken for garbage.
cmd_gc_start_all ==
    /\ gc.pc = "idle"
    /\ LET garbage == catalog_objects(objdir)
       IN  gc' = [ pc |-> "remove", garbage |-> garbage, todo |-> garbage, status |-> "" ]
    /\ UNCHANGED << objdir, repo, clean, last, worktree, remote, config, codec, pipe, ifilter >>

\* garbage = self.catalog_objects() - self.referenced_objects()
cmd_gc_start ==
    /\ gc.pc = "idle"
    /\ LET garbage == catalog_objects(objdir) \ referenced_objects(repo.HEAD)
       IN  IF referenced_raised(repo.HEAD) # { }
           THEN \E e \in referenced_raised(repo.HEAD) :
                   gc' = [ pc |-> "done", garbage |-> { }, todo |-> { }, status |-> e ]
           ELSE gc' = [ pc |-> "remove", garbage |-> garbage, todo |-> garbage, status |-> "" ]
    /\ UNCHANGED << objdir, repo, clean, last, worktree, remote, config, codec, pipe, ifilter >>

\* One turn of "for obj in garbage": os.stat(fname), os.remove(fname)
cmd_gc_remove(obj) ==
    /\ gc.pc = "remove"
    /\ obj \in gc.todo
    /\ IF exists(objdir, obj)
       THEN /\ objdir' = remove(objdir, obj)
            /\ gc' = [gc EXCEPT !.todo = @ \ { obj }]
       ELSE /\ gc' = [gc EXCEPT !.pc = "done", !.status = "OSError"]
            /\ UNCHANGED objdir
    /\ UNCHANGED << repo, clean, last, worktree, remote, nops, config, codec, pipe, ifilter >>

\* The loop is over.
cmd_gc_end ==
    /\ gc.pc = "remove"
    /\ gc.todo = { }
    /\ gc' = [gc EXCEPT !.pc = "done", !.status = "ok"]
    /\ UNCHANGED << objdir, repo, clean, last, worktree, remote, nops, config, codec, pipe, ifilter >>

cmd_gc_return ==
    /\ gc.pc = "done"
    /\ gc' = GcIdle
    /\ UNCHANGED << objdir, repo, clean, last, worktree, remote, nops, config, codec, pipe, ifilter >>

(***************************************************************************)
(* cmd_init and the configuration                                          *)
(***************************************************************************)

\* The value of a key that is not set: gitconfig_get gives None for it.
NotSet == "<not set>"

FilterClean == "git-fat filter-clean"

FilterSmudge == "git-fat filter-smudge"

\* What cmd_init writes into an empty configuration.
Configured == [clean |-> FilterClean, smudge |-> FilterSmudge]

\* The values a key is found with: not set, or set as init sets it.
ConfigValues(right) == { NotSet, right }

Configs == [clean : ConfigValues(FilterClean), smudge : ConfigValues(FilterSmudge)]

\* gitconfig_get(name) as a condition: None and the empty string are false.
gitconfig_true(value) == value \notin { NotSet, "" }

\* is_init_done: filter.fat.clean or filter.fat.smudge
is_init_done(cfg) == gitconfig_true(cfg.clean) \/ gitconfig_true(cfg.smudge)

\* cmd_init
cmd_init ==
    /\ IF is_init_done(config)
       THEN /\ last' = [LastNone EXCEPT !.op = "init", !.status = "already configured"]
            /\ UNCHANGED config
       ELSE /\ config' = [clean |-> FilterClean, smudge |-> FilterSmudge]
            /\ last' = [LastNone EXCEPT !.op = "init", !.status = "ok"]
    /\ UNCHANGED << objdir, repo, clean, gc, worktree, remote, codec, pipe, ifilter >>

(***************************************************************************)
(* cmd_push, checkout                                                      *)
(***************************************************************************)

\* rsync --ignore-existing --files-from=- src/ dst/ with the names on stdin:
\* the named files of src that dst lacks are copied.
rsync(src, dst, files) ==
    [n \in DOMAIN dst \cup (files \cap DOMAIN src) |-> IF n \in DOMAIN dst THEN dst[n] ELSE src[n]]

\* get_rsync_command with the two directories the wrong way round.
get_rsync_command_reversed(push) ==
    IF push THEN [src |-> "remote", dst |-> "objdir"] ELSE [src |-> "objdir", dst |-> "remote"]

\* get_rsync_command(push): the last two words of the command, of which
\* "objdir" is self.objdir and "remote" is rsync.remote of .gitfat.
get_rsync_command(push) ==
    IF push THEN [src |-> "objdir", dst |-> "remote"] ELSE [src |-> "remote", dst |-> "objdir"]

\* The byte b"\x00".
NUL == "NUL"

\* The order in which a set is iterated: any one.
iter(S) == CHOOSE q \in [1..Cardinality(S) -> S] : { q[i] : i \in 1..Cardinality(S) } = S

\* sep.join(q)
RECURSIVE join(_, _)
join(sep, q) ==
    IF Len(q) = 0 THEN << >>
    ELSE IF Len(q) = 1 THEN q[1]
    ELSE q[1] \o sep \o join(sep, Tail(q))

\* rsync --from0 --files-from=-: the names read from stdin, each ended by a
\* NUL or by the end of the input.
from0(input) ==
    { SubSeq(input, i, CHOOSE j \in i..Len(input) :
                            /\ \A k \in i..j : input[k] # NUL
                            /\ (j = Len(input) \/ input[j + 1] = NUL)) :
        i \in { n \in 1..Len(input) : input[n] # NUL /\ (n = 1 \/ input[n - 1] = NUL) } }

\* subprocess.Popen(cmd, stdin=PIPE); p.communicate(input): the two
\* directories after rsync has run and ended with rc (an rsync that fails
\* is taken to have copied nothing).
Popen(cmd, input, rc) ==
    IF rc # 0
    THEN [objdir |-> objdir, remote |-> remote]
    ELSE IF cmd.src = "objdir"
         THEN [objdir |-> objdir, remote |-> rsync(objdir, remote, from0(input))]
         ELSE [objdir |-> rsync(remote, objdir, from0(input)), remote |-> remote]

\* cmd_push: rc is the exit code of rsync.
cmd_push(all, rc) ==
    /\ \E raised \in { referenced_raised(rev_of(all)) } :
          IF raised # { }
          THEN /\ \E e \in raised :
                     last' = [LastNone EXCEPT !.op = "push", !.all = all, !.status = e,
                                              !.exit = 1]
               /\ UNCHANGED << objdir, remote, pipe, ifilter >>
          ELSE \E files \in { referenced_objects(rev_of(all)) \cap catalog_objects(objdir) } :
               \E cmd \in { get_rsync_command(TRUE) } :
               \E input \in { join(<< NUL >>, iter(files)) } :
               \E after \in { Popen(cmd, input, rc) } :
                  /\ objdir' = after.objdir
                  /\ remote' = after.remote
                  /\ last' = [LastNone EXCEPT
                                !.op = "push", !.all = all, !.files = files,
                                !.rsync = << [src |-> cmd.src, dst |-> cmd.dst,
                                              stdin |-> input] >>,
                                !.exit = rc,
                                !.status = IF rc = 0 THEN "ok" ELSE "exit rc"]
    /\ UNCHANGED << repo, clean, gc, worktree, config, codec, pipe, ifilter >>

\* decode_file(fname): the digest of a tracked file that is a placeholder of
\* the magic length, else nothing.
decode_file(fname, version) ==
    LET f == worktree[fname] IN
    IF Len(f.data) # magiclen(version)
    THEN [tag |-> "none", digest |-> << >>, bytes |-> None]
    ELSE decode_stream(f.data, version)

\* git ls-files -z patterns: the tracked files a pattern names ("." names
\* them all; a pattern is taken here for the path of one file).
ls_files(patterns) ==
    IF patterns = << >> \/ patterns = << << >> >>
    THEN DOMAIN worktree
    ELSE { f \in DOMAIN worktree : \E i \in 1..Len(patterns) : patterns[i] = << f >> }

\* orphan_files(patterns): the (digest, fname) of the placeholders among the
\* tracked files the patterns name
orphan_files(patterns, version) ==
    { << r.d.digest, r.fname >> :
        r \in { x \in { [fname |-> f, d |-> decode_file(f, version)] : f \in ls_files(patterns) } :
                  x.d.tag = "ok" /\ x.d.digest # << >> } }

\* The exception decode_file lets through on a tracked file, if any.
orphan_files_raised(patterns, version) ==
    { decode_file(f, version).tag : f \in ls_files(patterns) }
        \ { "ok", "none", "DecodeError" }

\* restore, run over every orphan whose blob dir holds, asked for or not.
restore_unasked(dir, restored, version) ==
    [f \in DOMAIN worktree |->
        IF \E o \in orphan_files(<< >>, version) : o[2] = f /\ o[1] \in DOMAIN dir
        THEN [worktree[f] EXCEPT
                !.mtime = @ + 1,
                !.data = smudge(dir, worktree[f].index, version).out]
        ELSE worktree[f]]

\* The work tree after the loop of checkout over the orphans whose blob dir
\* holds: os.utime(fname, (st_atime, st_mtime + 1)), then
\* git checkout-index --index --force fname, which writes the file from the
\* index entry through the smudge filter.
restore(dir, restored, version) ==
    [f \in DOMAIN worktree |->
        IF \E o \in restored : o[2] = f
        THEN [worktree[f] EXCEPT
                !.mtime = @ + 1,
                !.data = smudge(dir, worktree[f].index, version).out]
        ELSE worktree[f]]

\* The calls of os.utime in that loop.
utimes(restored) ==
    { << o[2], worktree[o[2]].atime, worktree[o[2]].mtime + 1 >> : o \in restored }

\* checkout: every orphan whose blob is readable is touched (mtime + 1) and
\* written again by git checkout-index, which smudges the index entry.  An
\* exception of decode_file other than the ones it catches ends the command.
checkout(show_orphans, version) ==
    /\ is_init_done(config)
    /\ orphan_files_raised(<< >>, version) = { }
    /\ \E orphans \in { orphan_files(<< >>, version) } :
       \E restored \in { { o \in orphans : exists(objdir, o[1]) } } :
          /\ worktree' = restore(objdir, restored, version)
          /\ last' = [LastNone EXCEPT !.op = "checkout", !.version = version,
                                      !.files = { o[1] : o \in restored },
                                      !.utime = utimes(restored),
                                      !.orphans = IF show_orphans
                                                  THEN { o[1] : o \in orphans \ restored }
                                                  ELSE { },
                                      !.status = "ok"]
    /\ UNCHANGED << objdir, repo, clean, gc, remote, config, codec, pipe, ifilter >>

\* The words of a command line that cmd_pull looks for.
DashDash == << "-", "-" >>

DashAll == << "-", "-", "a", "l", "l" >>

\* The name of the first commit of the history, and the blobs its tree holds.
Rev1 == Repeat("1", DigestLen)

Rev1Blobs == { encode_v2(sha1(Big), Len(Big)), Hello }

\* The path of a file, forty characters long, that names no revision.
Path40 == Repeat("p", DigestLen)

\* git rev-list --objects rev: the blobs among the objects listed.  A word
\* that names no revision makes rev-list fail and list nothing.
rev_list(rev) ==
    IF rev = DashAll THEN repo.all
    ELSE IF rev = << "H", "E", "A", "D" >> THEN repo.HEAD
    ELSE IF rev = Rev1 THEN repo.HEAD \cap Rev1Blobs
    ELSE { }

\* referenced_objects(rev, all): the revision it hands to git rev-list
referenced_rev(rev, all) ==
    IF all THEN DashAll
    ELSE IF rev = << >> THEN << "H", "E", "A", "D" >>
    ELSE rev

\* The words of args that cmd_pull hands to revparse.
IsRevArg(arg) == ~startswith(arg, << "-" >>) /\ Len(arg) = DigestLen

\* revparse(revname): git rev-parse prints the name of the commit; it fails,
\* and check_output raises, on a word that names neither a revision nor a
\* file of the work tree.
revparse_raises(revname) == revname # Rev1

\* refargs as the head of cmd_pull leaves it (rev is empty when no word was
\* taken for a revision), or the exception raised by revparse.
pull_refargs(args) ==
    LET all  == \E i \in 1..Len(args) : args[i] = DashAll
        revs == SelectSeq(args, IsRevArg)
    IN  IF \E i \in 1..Len(revs) : revparse_raises(revs[i])
        THEN [exc |-> "CalledProcessError", all |-> all, rev |-> << >>]
        ELSE [exc |-> "", all |-> all,
              rev |-> IF revs = << >> THEN << >> ELSE revs[Len(revs)]]

\* parse_pull_patterns
parse_pull_patterns(args) ==
    IF \A i \in 1..Len(args) : args[i] # DashDash
    THEN << << >> >>
    ELSE SubSeq(args, (CHOOSE i \in 1..Len(args) :
                          args[i] = DashDash /\ \A j \in 1..(i - 1) : args[j] # DashDash) + 1,
                Len(args))

\* filter_objects(refargs, patterns)
filter_objects(refargs, patterns, version) ==
    IF refargs.all
    THEN referenced_objects(rev_list(referenced_rev(refargs.rev, refargs.all)))
            \ catalog_objects(objdir)
    ELSE (referenced_objects(rev_list(referenced_rev(refargs.rev, refargs.all)))
            \ catalog_objects(objdir))
         \cap { o[1] : o \in orphan_files(patterns, version) }

\* The exceptions that end filter_objects, if any.
filter_objects_raised(refargs, patterns, version) ==
    referenced_raised(rev_list(referenced_rev(refargs.rev, refargs.all)))
        \cup (IF refargs.all THEN { } ELSE orphan_files_raised(patterns, version))

\* cmd_pull(args): rc is the exit code of rsync.  The checkout that ends it
\* runs on the store as rsync has left it.
cmd_pull(args, rc, version) ==
    /\ \E refargs \in { pull_refargs(args) } :
       \E raised \in { IF refargs.exc # "" THEN { refargs.exc }
                       ELSE filter_objects_raised(refargs, parse_pull_patterns(args), version) } :
          IF raised # { }
          THEN /\ \E e \in raised :
                     last' = [LastNone EXCEPT !.op = "pull", !.args = args, !.version = version,
                                              !.all = refargs.all, !.status = e, !.exit = 1]
               /\ UNCHANGED << objdir, remote, worktree, pipe, ifilter >>
          ELSE \E files \in { filter_objects(refargs, parse_pull_patterns(args), version) } :
               \E cmd \in { get_rsync_command(FALSE) } :
               \E input \in { join(<< NUL >>, iter(files)) } :
               \E after \in { Popen(cmd, input, rc) } :
               \E restored \in { IF rc # 0 \/ ~is_init_done(config)
                                    \/ orphan_files_raised(<< >>, version) # { }
                                 THEN { }
                                 ELSE { o \in orphan_files(<< >>, version) :
                                          o[1] \in DOMAIN after.objdir } } :
                  /\ objdir' = after.objdir
                  /\ remote' = after.remote
                  /\ worktree' = restore(after.objdir, restored, version)
                  /\ last' = [LastNone EXCEPT
                                !.op = "pull", !.args = args, !.version = version,
                                !.all = refargs.all, !.files = files,
                                !.rsync = << [src |-> cmd.src, dst |-> cmd.dst,
                                              stdin |-> input] >>,
                                !.utime = utimes(restored),
                                !.exit = IF rc # 0 THEN rc
                                         ELSE IF is_init_done(config) THEN 0 ELSE 1,
                                !.status = IF rc # 0 THEN "exit rc"
                                           ELSE IF ~is_init_done(config) THEN "exit 1"
                                           ELSE IF orphan_files_raised(<< >>, version) # { }
                                                THEN "raised" ELSE "ok"]
    /\ UNCHANGED << repo, clean, gc, config, codec, pipe, ifilter >>

\* assert_init_done fails: checkout exits with 1 before it looks at a file.
checkout_not_configured ==
    /\ ~is_init_done(config)
    /\ last' = [LastNone EXCEPT !.op = "checkout", !.status = "exit 1"]
    /\ UNCHANGED << objdir, repo, clean, gc, worktree, remote, config, codec, pipe, ifilter >>

\* The command that ran last has ended; the next one may start.
cmd_return ==
    /\ last.op # "none"
    /\ last' = LastNone
    /\ UNCHANGED << objdir, repo, clean, gc, worktree, remote, nops, config, codec, pipe, ifilter >>

(***************************************************************************)
(* cmd_index_filter                                                        *)
(***************************************************************************)

\* The paths an index may hold, in the order git ls-files lists them.
IndexPaths == << "a", "b", "c", "l" >>

\* git hash-object -w --stdin: the name of the blob with these contents.
hash_object(data) == << "blob", data >>

\* git cat-file blob <name>: the contents of the blob.
cat_file(blobhash) == blobhash[2]

\* The entries the indexes are made of: two paths with the same large blob, a
\* small file and a symbolic link.
IndexEntries ==
    { [mode |-> "100644", blobhash |-> hash_object(Big),   stageno |-> "0", path |-> "a"],
      [mode |-> "100644", blobhash |-> hash_object(Hello), stageno |-> "0", path |-> "b"],
      [mode |-> "100644", blobhash |-> hash_object(Big),   stageno |-> "0", path |-> "c"],
      [mode |-> "120000", blobhash |-> hash_object(Hello), stageno |-> "0", path |-> "l"] }

\* The arguments of a run: the paths named in the file args[0], and whether
\* --manage-gitattributes is among the arguments.
FileLists == SUBSET { "a", "b", "c", "l" }

\* cat-file's and the worker's places in the pipeline of one entry.
PipelineIdle ==
    [blob |-> << >>, version |-> 2, catfile |-> "none", todo |-> << >>, out |-> << >>,
     eof |-> FALSE, worker |-> "none", block |-> << >>, nblocks |-> 0, tmpname |-> "",
     cached |-> FALSE, exc |-> "", stdin |-> "none", hashobject |-> "none", main |-> "none"]

\* No run of index-filter yet: index is what git ls-files -s would list,
\* staged what update-index was given, cache the directory fat/index-filter.
FilterIdle ==
    [pc |-> "idle", index |-> { }, filelist |-> { }, manage |-> FALSE,
     staged |-> { }, cache |-> { }, status |-> "", pl |-> PipelineIdle]

\* The lines of "git ls-files -s" as lsfiles.stdout yields them.  The pipe is
\* opened by Popen without text mode or encoding, so that each line is a
\* bytes object: "<mode> <blobhash> <stageno>\t<path>\n".
ls_files_s(index) ==
    LET lineof(e) == [type |-> "bytes",
                      fields |-> << e.mode, e.blobhash, e.stageno, e.path >>,
                      seps |-> << " ", " ", "\t" >>]
        listed == { i \in DOMAIN IndexPaths : \E e \in index : e.path = IndexPaths[i] }
        RECURSIVE lines(_)
        lines(i) == IF i > Len(IndexPaths) THEN << >>
                    ELSE IF i \in listed
                         THEN << lineof(CHOOSE e \in index : e.path = IndexPaths[i]) >>
                              \o lines(i + 1)
                         ELSE lines(i + 1)
    IN  lines(1)

\* string.partition(sep) with sep a str: the part before the first sep and
\* the part after it.  A bytes object takes only a bytes separator and raises
\* TypeError for a str.
partition(string, sep) ==
    IF string.type = "bytes"
    THEN [raised |-> "TypeError", head |-> << >>, tail |-> string]
    ELSE IF string.seps # << >> /\ Head(string.seps) = sep
         THEN [raised |-> "", head |-> Head(string.fields),
               tail |-> [string EXCEPT !.fields = Tail(string.fields),
                                       !.seps = Tail(string.seps)]]
         ELSE [raised |-> "", head |-> string.fields, tail |-> [string EXCEPT !.fields = << >>]]

\* One turn of the loop "for line in lsfiles.stdout" (lines 580-617): what it
\* ends with.  "continue" is a line passed over or an entry staged, "blocked"
\* the main thread left in hashobject.stdout.read() by the pipeline of a blob
\* the cache does not hold; writing the str to update-index's binary stdin
\* raises TypeError as well.
index_filter_line(line, filelist, cache) ==
    LET m == partition(line, " ") IN
    IF m.raised # "" THEN m.raised
    ELSE LET b == partition(m.tail, " ")
             s == partition(b.tail, "\t")
             filename == Head(s.tail.fields)
         IN  IF filename \notin filelist THEN "continue"
             ELSE IF m.head = "120000" THEN "continue"
             ELSE IF \E c \in cache : c[1] = b.head THEN "TypeError"
             ELSE "blocked"

\* The loop over the lines: it ends at the first line that raises or blocks.
RECURSIVE index_filter_loop(_, _, _)
index_filter_loop(lines, filelist, cache) ==
    IF lines = << >> THEN ""
    ELSE LET r == index_filter_line(Head(lines), filelist, cache)
         IN  IF r = "continue" THEN index_filter_loop(Tail(lines), filelist, cache)
             ELSE r

\* git fat index-filter <file> [--manage-gitattributes], the handler as a
\* whole: nothing reaches update-index and no cache file is written on any
\* path through it, and git update-index, given no input, leaves the index
\* as it was.  With --manage-gitattributes (lines 618-642) and an index that
\* does not list .gitattributes, the unpacking raises the ValueError the code
\* catches, and hashobject.communicate is then handed a str for a binary
\* pipe: TypeError.
cmd_index_filter(filelist, manage_gitattributes) ==
    /\ ifilter.pc = "idle"
    /\ \E loop \in { index_filter_loop(ls_files_s(ifilter.index), filelist, ifilter.cache) } :
          ifilter' = [ifilter EXCEPT
                         !.pc = "done", !.filelist = filelist,
                         !.manage = manage_gitattributes,
                         !.status = IF loop # "" THEN loop
                                    ELSE IF manage_gitattributes
                                         THEN "TypeError"
                                         ELSE "ok"]
    /\ UNCHANGED << objdir, repo, clean, gc, last, worktree, remote, nops, config, codec, pipe >>

\* The command has ended; the repository is as it left it.
index_filter_return ==
    /\ ifilter.pc = "done"
    /\ ifilter' = [ifilter EXCEPT !.pc = "idle", !.filelist = { }, !.manage = FALSE,
                                  !.status = ""]
    /\ UNCHANGED << objdir, repo, clean, gc, last, worktree, remote, nops, config, codec, pipe >>

(***************************************************************************)
(* encode and decode called on their own                                   *)
(***************************************************************************)

CodecIdle == [pc |-> "idle", version |-> 2, digest |-> << >>, bytes |-> 0,
              string |-> << >>, result |-> [tag |-> "none", digest |-> << >>, bytes |-> None]]

\* Digests: hexdigest() of some contents, and the least and the greatest.
Digests == { sha1(Hello), sha1(Big), sha1(Empty), dummy_hash,
             Repeat("0", DigestLen), Repeat("f", DigestLen) }

\* Byte counts: one to ten digits.
Sizes == { 0, 1, 9, 10, 99, 4096, 1048576, 2147483647 }

\* self.encode(digest, bytes)
codec_encode ==
    /\ codec.pc = "call"
    /\ codec' = [codec EXCEPT !.pc = "encoded",
                              !.string = encode(codec.version, codec.digest, codec.bytes)]
    /\ UNCHANGED << objdir, repo, clean, gc, last, worktree, remote, nops, config, pipe, ifilter >>

\* self.decode(string)
codec_decode ==
    /\ codec.pc = "encoded"
    /\ codec' = [codec EXCEPT !.pc = "decoded", !.result = decode(codec.string, FALSE)]
    /\ UNCHANGED << objdir, repo, clean, gc, last, worktree, remote, nops, config, pipe, ifilter >>

(***************************************************************************)
(* referenced_objects, step by step:                                       *)
(*   git rev-list --objects | cut_sha1hash | git cat-file --batch-check    *)
(*     | filter_gitfat_candidates | git cat-file --batch                   *)
(* with the caller reading what the last child writes.                     *)
(***************************************************************************)

\* How many lines a pipe holds before a write to it blocks.
PipeCap == 1

\* The objects git rev-list --objects names: a commit, its tree (here as
\* long as a placeholder), and the blobs of the tree, the last of them a
\* small file whose name is no UTF-8 text.
Commit == [type |-> "commit", data |-> Hello, path |-> << >>]

TreeM == [type |-> "tree", data |-> Junk, path |-> << >>]

blob(data, path) == [type |-> "blob", data |-> data, path |-> path]

HistoryBlobs ==
    << blob(Hello, << "f" >>), blob(HelloV2, << "f" >>), blob(Junk, << "f" >>),
       blob(Words, << "f" >>), blob(Blank, << "f" >>), blob(Binary, << "f" >>),
       blob(HelloV1, << "f" >>), blob(Hello, << NonUtf8 >>) >>

RECURSIVE blobs_of(_, _, _)
blobs_of(q, S, i) ==
    IF i > Len(q) THEN << >>
    ELSE (IF i \in S THEN << q[i] >> ELSE << >>) \o blobs_of(q, S, i + 1)

\* The histories: the commit, the tree, and any of the blobs.  An object's
\* name is its place in the history.
Histories ==
    { << Commit, TreeM >> \o blobs_of(HistoryBlobs, S, 1) :
        S \in SUBSET (1..Len(HistoryBlobs)) }

PipeIdle ==
    [ pc |-> "idle", history |-> << >>, next |-> 1,
      p1 |-> "exited", p2 |-> "exited", p3 |-> "exited",
      cut_thread |-> "done", filter_thread |-> "done",
      cut_to_write |-> 0, filter_to_write |-> 0,
      p1_stdout |-> << >>, p2_stdin |-> << >>, p2_stdout |-> << >>,
      p3_stdin |-> << >>, p3_stdout |-> << >>,
      p2_stdin_closed |-> FALSE, p3_stdin_closed |-> FALSE,
      p2_out |-> << >>, p3_out |-> << >>,
      size |-> 0, referenced |-> { }, exc |-> "", waited |-> { } ]

\* The three children and the two threads are started; the caller goes on
\* to its loop.
referenced_objects_start(history) ==
    /\ pipe.pc = "idle"
    /\ pipe' = [PipeIdle EXCEPT !.pc = "readline", !.history = history,
                                !.p1 = "running", !.p2 = "running", !.p3 = "running",
                                !.cut_thread = "iter", !.filter_thread = "iter"]
    /\ UNCHANGED << objdir, repo, clean, gc, last, worktree, remote, nops, config, codec, ifilter >>

\* git rev-list --objects writes "name path" for the next object.
rev_list_write ==
    /\ pipe.p1 = "running"
    /\ pipe.next <= Len(pipe.history)
    /\ Len(pipe.p1_stdout) < PipeCap
    /\ pipe' = [pipe EXCEPT
                  !.p1_stdout = Append(@, << pipe.next, pipe.history[pipe.next].path >>),
                  !.next = @ + 1]
    /\ UNCHANGED << objdir, repo, clean, gc, last, worktree, remote, nops, config, codec, ifilter >>

\* git rev-list has written every object and exits.
rev_list_exit ==
    /\ pipe.p1 = "running"
    /\ pipe.next > Len(pipe.history)
    /\ pipe' = [pipe EXCEPT !.p1 = "exited"]
    /\ UNCHANGED << objdir, repo, clean, gc, last, worktree, remote, nops, config, codec, ifilter >>

\* cut_sha1hash, "for line in input": the next line, decoded as UTF-8, and
\* its first word; or the end of the input once git rev-list has exited.
\* UnicodeDecodeError ends the thread where it is, its output left open.
cut_sha1hash_iter ==
    /\ pipe.cut_thread = "iter"
    /\ IF pipe.p1_stdout # << >>
       THEN \E line \in { Head(pipe.p1_stdout) } :
              IF utf8_raises(line[2])
              THEN pipe' = [pipe EXCEPT !.p1_stdout = Tail(@), !.cut_thread = "raised"]
              ELSE pipe' = [pipe EXCEPT !.p1_stdout = Tail(@), !.cut_thread = "write",
                                        !.cut_to_write = line[1]]
       ELSE /\ pipe.p1 = "exited"
            /\ pipe' = [pipe EXCEPT !.cut_thread = "close"]
    /\ UNCHANGED << objdir, repo, clean, gc, last, worktree, remote, nops, config, codec, ifilter >>

\* cut_sha1hash: output.write(to_write)
cut_sha1hash_write ==
    /\ pipe.cut_thread = "write"
    /\ Len(pipe.p2_stdin) < PipeCap
    /\ pipe' = [pipe EXCEPT !.p2_stdin = Append(@, pipe.cut_to_write), !.cut_thread = "iter"]
    /\ UNCHANGED << objdir, repo, clean, gc, last, worktree, remote, nops, config, codec, ifilter >>

\* cut_sha1hash: output.close()
cut_sha1hash_close ==
    /\ pipe.cut_thread = "close"
    /\ pipe' = [pipe EXCEPT !.p2_stdin_closed = TRUE, !.cut_thread = "done"]
    /\ UNCHANGED << objdir, repo, clean, gc, last, worktree, remote, nops, config, codec, ifilter >>

\* git cat-file --batch-check reads a name and has "name type size" to write.
batch_check_read ==
    /\ pipe.p2 = "running"
    /\ pipe.p2_out = << >>
    /\ pipe.p2_stdin # << >>
    /\ \E o \in { Head(pipe.p2_stdin) } :
          pipe' = [pipe EXCEPT
                     !.p2_stdin = Tail(@),
                     !.p2_out = << << o, pipe.history[o].type, Len(pipe.history[o].data) >> >>]
    /\ UNCHANGED << objdir, repo, clean, gc, last, worktree, remote, nops, config, codec, ifilter >>

batch_check_write ==
    /\ pipe.p2_out # << >>
    /\ Len(pipe.p2_stdout) < PipeCap
    /\ pipe' = [pipe EXCEPT !.p2_stdout = Append(@, Head(pipe.p2_out)), !.p2_out = Tail(@)]
    /\ UNCHANGED << objdir, repo, clean, gc, last, worktree, remote, nops, config, codec, ifilter >>

\* git cat-file --batch-check meets the end of its input and exits.
batch_check_exit ==
    /\ pipe.p2 = "running"
    /\ pipe.p2_out = << >>
    /\ pipe.p2_stdin = << >>
    /\ pipe.p2_stdin_closed
    /\ pipe' = [pipe EXCEPT !.p2 = "exited"]
    /\ UNCHANGED << objdir, repo, clean, gc, last, worktree, remote, nops, config, codec, ifilter >>

\* filter_gitfat_candidates, "for line in input": the next line, kept when
\* it names a blob whose size is a magic length; or the end of the input.
filter_gitfat_candidates_iter ==
    /\ pipe.filter_thread = "iter"
    /\ IF pipe.p2_stdout # << >>
       THEN \E line \in { Head(pipe.p2_stdout) } :
              IF line[2] = "blob" /\ line[3] \in magiclens
              THEN pipe' = [pipe EXCEPT !.p2_stdout = Tail(@), !.filter_thread = "write",
                                        !.filter_to_write = line[1]]
              ELSE pipe' = [pipe EXCEPT !.p2_stdout = Tail(@)]
       ELSE /\ pipe.p2 = "exited"
            /\ pipe' = [pipe EXCEPT !.filter_thread = "close"]
    /\ UNCHANGED << objdir, repo, clean, gc, last, worktree, remote, nops, config, codec, ifilter >>

\* filter_gitfat_candidates: output.write(to_write)
filter_gitfat_candidates_write ==
    /\ pipe.filter_thread = "write"
    /\ Len(pipe.p3_stdin) < PipeCap
    /\ pipe' = [pipe EXCEPT !.p3_stdin = Append(@, pipe.filter_to_write),
                            !.filter_thread = "iter"]
    /\ UNCHANGED << objdir, repo, clean, gc, last, worktree, remote, nops, config, codec, ifilter >>

\* filter_gitfat_candidates: output.close()
filter_gitfat_candidates_close ==
    /\ pipe.filter_thread = "close"
    /\ pipe' = [pipe EXCEPT !.p3_stdin_closed = TRUE, !.filter_thread = "done"]
    /\ UNCHANGED << objdir, repo, clean, gc, last, worktree, remote, nops, config, codec, ifilter >>

\* git cat-file --batch reads a name and has three things to write: the
\* line "name type size", the contents, and a line feed.
batch_read ==
    /\ pipe.p3 = "running"
    /\ pipe.p3_out = << >>
    /\ pipe.p3_stdin # << >>
    /\ \E o \in { Head(pipe.p3_stdin) } :
          pipe' = [pipe EXCEPT
                     !.p3_stdin = Tail(@),
                     !.p3_out =
                        << [line |-> << o, pipe.history[o].type, Len(pipe.history[o].data) >>,
                            data |-> << >>],
                           [line |-> << >>, data |-> pipe.history[o].data],
                           [line |-> << >>, data |-> << "\n" >>] >>]
    /\ UNCHANGED << objdir, repo, clean, gc, last, worktree, remote, nops, config, codec, ifilter >>

batch_write ==
    /\ pipe.p3_out # << >>
    /\ Len(pipe.p3_stdout) < PipeCap
    /\ pipe' = [pipe EXCEPT !.p3_stdout = Append(@, Head(pipe.p3_out)), !.p3_out = Tail(@)]
    /\ UNCHANGED << objdir, repo, clean, gc, last, worktree, remote, nops, config, codec, ifilter >>

\* git cat-file --batch meets the end of its input and exits.
batch_exit ==
    /\ pipe.p3 = "running"
    /\ pipe.p3_out = << >>
    /\ pipe.p3_stdin = << >>
    /\ pipe.p3_stdin_closed
    /\ pipe' = [pipe EXCEPT !.p3 = "exited"]
    /\ UNCHANGED << objdir, repo, clean, gc, last, worktree, remote, nops, config, codec, ifilter >>

\* The caller's loop: p3.stdout.readline(), and the break at the end of the
\* input.
referenced_objects_readline ==
    /\ pipe.pc = "readline"
    /\ IF pipe.p3_stdout # << >>
       THEN pipe' = [pipe EXCEPT !.p3_stdout = Tail(@), !.pc = "read",
                                 !.size = Head(pipe.p3_stdout).line[3]]
       ELSE /\ pipe.p3 = "exited"
            /\ pipe' = [pipe EXCEPT !.pc = "join"]
    /\ UNCHANGED << objdir, repo, clean, gc, last, worktree, remote, nops, config, codec, ifilter >>

\* The caller's loop: the contents are read and decoded as UTF-8, then as a
\* placeholder.  DecodeError is caught; any other exception ends the call.
referenced_objects_read ==
    /\ pipe.pc = "read"
    /\ pipe.p3_stdout # << >>
    /\ \E content \in { Head(pipe.p3_stdout).data } :
          IF utf8_raises(content)
          THEN pipe' = [pipe EXCEPT !.p3_stdout = Tail(@), !.pc = "raised",
                                    !.exc = "UnicodeDecodeError"]
          ELSE \E r \in { decoded(content, FALSE) } :
                 IF r.tag = "ok"
                 THEN pipe' = [pipe EXCEPT !.p3_stdout = Tail(@), !.pc = "lf",
                                           !.referenced = @ \cup { r.digest }]
                 ELSE IF r.tag = "DecodeError"
                      THEN pipe' = [pipe EXCEPT !.p3_stdout = Tail(@), !.pc = "lf"]
                      ELSE pipe' = [pipe EXCEPT !.p3_stdout = Tail(@), !.pc = "raised",
                                                !.exc = r.tag]
    /\ UNCHANGED << objdir, repo, clean, gc, last, worktree, remote, nops, config, codec, ifilter >>

\* The caller's loop: the line feed that ends the record is consumed.
referenced_objects_lf ==
    /\ pipe.pc = "lf"
    /\ pipe.p3_stdout # << >>
    /\ pipe' = [pipe EXCEPT !.p3_stdout = Tail(@), !.pc = "readline"]
    /\ UNCHANGED << objdir, repo, clean, gc, last, worktree, remote, nops, config, codec, ifilter >>

\* cut_thread.join(); filter_thread.join()
referenced_objects_join ==
    /\ pipe.pc = "join"
    /\ pipe.cut_thread = "done"
    /\ pipe.filter_thread = "done"
    /\ pipe' = [pipe EXCEPT !.pc = "wait"]
    /\ UNCHANGED << objdir, repo, clean, gc, last, worktree, remote, nops, config, codec, ifilter >>

\* p1.wait(); p2.wait(); p3.wait(); return referenced
referenced_objects_wait ==
    /\ pipe.pc = "wait"
    /\ pipe.p1 = "exited"
    /\ pipe.p2 = "exited"
    /\ pipe.p3 = "exited"
    /\ pipe' = [pipe EXCEPT !.pc = "returned", !.waited = { "p1", "p2", "p3" }]
    /\ UNCHANGED << objdir, repo, clean, gc, last, worktree, remote, nops, config, codec, ifilter >>

(***************************************************************************)
(* The repository the commands run in                                      *)
(***************************************************************************)
EmptyV1 == encode_v1(sha1(Empty), Len(Empty))

BigV2 == encode_v2(sha1(Big), Len(Big))

\* An empty history; and one whose HEAD holds a V2 and a V1 placeholder, a
\* blob of magic length that is none, and a small file, with one more
\* placeholder on an abandoned branch.
Repos ==
    { [HEAD |-> { }, all |-> { }],
      [HEAD |-> { BigV2, EmptyV1, Junk, Hello },
       all  |-> { BigV2, EmptyV1, Junk, Hello, HelloV2 }] }

BigV1 == encode_v1(sha1(Big), Len(Big))

\* Two tracked placeholders not yet smudged, one written under V2 and one
\* under V1, and a tracked small file.
Worktree0 ==
    [f \in { "a", "b", "c" } |->
        IF f = "a" THEN [data |-> BigV2, atime |-> 2, mtime |-> 1, index |-> BigV2]
        ELSE IF f = "c" THEN [data |-> BigV1, atime |-> 2, mtime |-> 1, index |-> BigV1]
        ELSE [data |-> Hello, atime |-> 2, mtime |-> 1, index |-> Hello]]

\* git clone, and the work moves to the clone: setup() finds no object
\* directory there and makes an empty one, the tracked files are written
\* anew as the placeholders of the index (no filter is configured yet), and
\* .git/config holds neither key.
git_clone ==
    /\ objdir' = << >>
    /\ worktree' = Worktree0
    /\ config' = [clean |-> NotSet, smudge |-> NotSet]
    /\ last' = [LastNone EXCEPT !.op = "clone", !.status = "ok"]
    /\ UNCHANGED << repo, clean, gc, remote, codec, pipe, ifilter >>

\* What smudge is run on: the contents, and the placeholders clean writes.
SmudgeInputs == Contents \cup { CookieX, HelloV2z, EmptyV1, BigV2 }

Init ==
    /\ objdir = << >>
    /\ repo \in Repos
    /\ clean = [p \in Procs |-> CleanIdle]
    /\ gc = GcIdle
    /\ last = LastNone
    /\ worktree = Worktree0
    /\ remote = << >>
    /\ nops = 0
    /\ config = Configured
    /\ pipe = PipeIdle
    /\ ifilter = FilterIdle
    /\ codec = CodecIdle

\* The same with filter.fat.clean and filter.fat.smudge as they may be found.
InitCmds ==
    /\ objdir = << >>
    /\ repo \in Repos
    /\ clean = [p \in Procs |-> CleanIdle]
    /\ gc = GcIdle
    /\ last = LastNone
    /\ worktree = Worktree0
    /\ remote = << >>
    /\ nops = 0
    /\ config \in Configs
    /\ pipe = PipeIdle
    /\ ifilter = FilterIdle
    /\ codec = CodecIdle

(***************************************************************************)
(* Spec: the filters and the maintenance commands, one command at a time,  *)
(* each to its end, on every modelled content.                             *)
(***************************************************************************)
Next ==
    \/ \E c \in Contents, v \in Versions :
          Quiet /\ filter_clean_start(1, c, v) /\ UNCHANGED nops
    \/ filter_clean_block(1)
    \/ filter_clean_exists(1)
    \/ filter_clean_remove(1)
    \/ filter_clean_chmod(1)
    \/ filter_clean_rename(1)
    \/ filter_clean_write(1)
    \/ filter_clean_ioerror(1)
    \/ filter_clean_finally(1)
    \/ filter_clean_return(1)
    \/ \E x \in SmudgeInputs, v \in Versions :
          Quiet /\ cmd_filter_smudge(x, v) /\ UNCHANGED nops
    \/ \E all \in BOOLEAN : Quiet /\ cmd_status(all) /\ UNCHANGED nops
    \/ Quiet /\ cmd_verify /\ UNCHANGED nops
    \/ Quiet /\ cmd_gc_start /\ UNCHANGED nops
    \/ \E obj \in gc.todo : cmd_gc_remove(obj)
    \/ cmd_gc_end
    \/ cmd_gc_return
    \/ cmd_return

Spec == Init /\ [][Next]_vars

(***************************************************************************)
(* SpecRace: two filter-clean processes side by side, as when git stages   *)
(* files in parallel, and a smudge reading the store between their steps.  *)
(***************************************************************************)
RaceContents == { Hello, Big }

NextRace ==
    \/ \E p \in Procs :
        \/ \E c \in RaceContents :
              last.op = "none" /\ filter_clean_start(p, c, 2) /\ UNCHANGED nops
        \/ last.op = "none" /\ filter_clean_block(p)
        \/ last.op = "none" /\ filter_clean_exists(p)
        \/ last.op = "none" /\ filter_clean_remove(p)
        \/ last.op = "none" /\ filter_clean_chmod(p)
        \/ last.op = "none" /\ filter_clean_rename(p)
        \/ last.op = "none" /\ filter_clean_write(p)
        \/ last.op = "none" /\ filter_clean_finally(p)
        \/ last.op = "none" /\ filter_clean_return(p)
    \/ \E x \in { HelloV2, BigV2 } :
          last.op = "none" /\ cmd_filter_smudge(x, 2) /\ UNCHANGED nops
    \/ cmd_return

SpecRace == Init /\ [][NextRace]_vars

(***************************************************************************)
(* SpecConc: clean, smudge, gc, verify and checkout interleaved step by    *)
(* step, with two filter-clean processes that may be killed at any step.   *)
(* What smudge, verify and checkout wrote is read before the next step.    *)
(***************************************************************************)
ConcContents == { Big }

\* Commands started in one behaviour of SpecConc.
MaxOps == 3

Started == last.op = "none" /\ nops < MaxOps /\ nops' = nops + 1

NextConc ==
    \/ \E p \in Procs :
        \/ \E c \in ConcContents : Started /\ filter_clean_start(p, c, 2)
        \/ last.op = "none" /\ filter_clean_block(p)
        \/ last.op = "none" /\ filter_clean_exists(p)
        \/ last.op = "none" /\ filter_clean_remove(p)
        \/ last.op = "none" /\ filter_clean_chmod(p)
        \/ last.op = "none" /\ filter_clean_rename(p)
        \/ last.op = "none" /\ filter_clean_write(p)
        \/ last.op = "none" /\ filter_clean_finally(p)
        \/ last.op = "none" /\ filter_clean_return(p)
        \/ last.op = "none" /\ filter_clean_abort(p)
    \/ Started /\ cmd_gc_start
    \/ \E obj \in gc.todo : last.op = "none" /\ cmd_gc_remove(obj)
    \/ last.op = "none" /\ cmd_gc_end
    \/ last.op = "none" /\ cmd_gc_return
    \/ Started /\ cmd_filter_smudge(BigV2, 2)
    \/ Started /\ cmd_verify
    \/ Started /\ checkout(TRUE, 2)
    \/ cmd_return

SpecConc == Init /\ [][NextConc]_vars

(***************************************************************************)
(* SpecCmds: every command, one at a time, in any order.                   *)
(***************************************************************************)
CmdsContents == { Big, BigV2, Empty }

\* rsync ends with 0, or with 23 when some files could not be transferred.
ExitCodes == { 0, 23 }

\* The command lines of pull: no word; --all; a revision; patterns after --,
\* one of them forty characters long; a revision and a pattern.
PullArgs ==
    { << >>, << DashAll >>, << Rev1 >>, << DashDash, << "a" >> >>,
      << DashDash, Path40 >>, << Rev1, DashDash, << "c" >> >> }

NextCmds ==
    \/ \E c \in CmdsContents, v \in Versions :
          Quiet /\ filter_clean_start(1, c, v) /\ UNCHANGED nops
    \/ filter_clean_block(1)
    \/ filter_clean_exists(1)
    \/ filter_clean_remove(1)
    \/ filter_clean_chmod(1)
    \/ filter_clean_rename(1)
    \/ filter_clean_write(1)
    \/ filter_clean_ioerror(1)
    \/ filter_clean_finally(1)
    \/ filter_clean_return(1)
    \/ \E x \in SmudgeInputs, v \in Versions :
          Quiet /\ cmd_filter_smudge(x, v) /\ UNCHANGED nops
    \/ \E all \in BOOLEAN : Quiet /\ cmd_status(all) /\ UNCHANGED nops
    \/ Quiet /\ cmd_verify /\ UNCHANGED nops
    \/ Quiet /\ cmd_gc_start /\ UNCHANGED nops
    \/ \E obj \in gc.todo : cmd_gc_remove(obj)
    \/ cmd_gc_end
    \/ cmd_gc_return
    \/ \E all \in BOOLEAN, rc \in ExitCodes : Quiet /\ cmd_push(all, rc) /\ UNCHANGED nops
    \/ \E show \in BOOLEAN, v \in Versions : Quiet /\ checkout(show, v) /\ UNCHANGED nops
    \/ Quiet /\ checkout_not_configured /\ UNCHANGED nops
    \/ Quiet /\ cmd_init /\ UNCHANGED nops
    \/ \E args \in PullArgs, rc \in ExitCodes, v \in Versions :
          Quiet /\ cmd_pull(args, rc, v) /\ UNCHANGED nops
    \/ cmd_return

SpecCmds == InitCmds /\ [][NextCmds]_vars

(***************************************************************************)
(* SpecSync: a repository whose store holds every blob its history         *)
(* references is pushed, cloned, and pulled in the clone.                  *)
(***************************************************************************)

\* The store after filter-clean has taken in the two blobs of the history.
Store0 ==
    [d \in { sha1(Big), sha1(Empty) } |->
        [data |-> IF d = sha1(Big) THEN Big ELSE Empty, mode |-> ChmodMode]]

InitSync ==
    /\ objdir = Store0
    /\ repo = [HEAD |-> { BigV2, EmptyV1, Junk, Hello },
               all  |-> { BigV2, EmptyV1, Junk, Hello, HelloV2 }]
    /\ clean = [p \in Procs |-> CleanIdle]
    /\ gc = GcIdle
    /\ last = LastNone
    /\ worktree \in { Worktree0,
                       [f \in DOMAIN Worktree0 |->
                           [Worktree0[f] EXCEPT !.data = IF f = "b" THEN Hello ELSE Big]] }
    /\ remote = << >>
    /\ nops = 0
    /\ config = Configured
    /\ pipe = PipeIdle
    /\ ifilter = FilterIdle
    /\ codec = CodecIdle

NextSync ==
    \/ \E all \in BOOLEAN, rc \in ExitCodes : Quiet /\ cmd_push(all, rc) /\ UNCHANGED nops
    \/ Quiet /\ git_clone /\ UNCHANGED nops
    \/ Quiet /\ cmd_init /\ UNCHANGED nops
    \/ \E args \in PullArgs, rc \in ExitCodes, v \in Versions :
          Quiet /\ cmd_pull(args, rc, v) /\ UNCHANGED nops
    \/ \E show \in BOOLEAN, v \in Versions : Quiet /\ checkout(show, v) /\ UNCHANGED nops
    \/ Quiet /\ checkout_not_configured /\ UNCHANGED nops
    \/ cmd_return

SpecSync == InitSync /\ [][NextSync]_vars

\* encode called on a digest and a byte count under either version, and
\* decode called on what it returned.
InitCodec ==
    /\ objdir = << >>
    /\ repo = [HEAD |-> { }, all |-> { }]
    /\ clean = [p \in Procs |-> CleanIdle]
    /\ gc = GcIdle
    /\ last = LastNone
    /\ worktree = Worktree0
    /\ remote = << >>
    /\ nops = 0
    /\ config = Configured
    /\ pipe = PipeIdle
    /\ ifilter = FilterIdle
    /\ codec \in { [CodecIdle EXCEPT !.pc = "call", !.version = v, !.digest = d, !.bytes = n] :
                     v \in Versions, d \in Digests, n \in Sizes }

NextCodec ==
    \/ codec_encode
    \/ codec_decode

SpecCodec == InitCodec /\ [][NextCodec]_vars

(***************************************************************************)
(* SpecRefs: one call of referenced_objects on any of the histories, its   *)
(* children, threads and caller taking their steps in any order.           *)
(***************************************************************************)
InitRefs ==
    /\ objdir = << >>
    /\ repo = [HEAD |-> { }, all |-> { }]
    /\ clean = [p \in Procs |-> CleanIdle]
    /\ gc = GcIdle
    /\ last = LastNone
    /\ worktree = Worktree0
    /\ remote = << >>
    /\ nops = 0
    /\ config = Configured
    /\ codec = CodecIdle
    /\ pipe = PipeIdle
    /\ ifilter = FilterIdle

NextRefs ==
    \/ \E history \in Histories : referenced_objects_start(history)
    \/ rev_list_write
    \/ rev_list_exit
    \/ cut_sha1hash_iter
    \/ cut_sha1hash_write
    \/ cut_sha1hash_close
    \/ batch_check_read
    \/ batch_check_write
    \/ batch_check_exit
    \/ filter_gitfat_candidates_iter
    \/ filter_gitfat_candidates_write
    \/ filter_gitfat_candidates_close
    \/ batch_read
    \/ batch_write
    \/ batch_exit
    \/ referenced_objects_readline
    \/ referenced_objects_read
    \/ referenced_objects_lf
    \/ referenced_objects_join
    \/ referenced_objects_wait

SpecRefs == InitRefs /\ [][NextRefs]_vars

\* The same, none of the children, threads and caller waiting for ever to
\* take a step it can take: each is a process or a thread of its own.
SpecRefsFair ==
    /\ SpecRefs
    /\ WF_vars(rev_list_write) /\ WF_vars(rev_list_exit)
    /\ WF_vars(cut_sha1hash_iter) /\ WF_vars(cut_sha1hash_write)
    /\ WF_vars(cut_sha1hash_close)
    /\ WF_vars(batch_check_read) /\ WF_vars(batch_check_write)
    /\ WF_vars(batch_check_exit)
    /\ WF_vars(filter_gitfat_candidates_iter) /\ WF_vars(filter_gitfat_candidates_write)
    /\ WF_vars(filter_gitfat_candidates_close)
    /\ WF_vars(batch_read) /\ WF_vars(batch_write) /\ WF_vars(batch_exit)
    /\ WF_vars(referenced_objects_readline) /\ WF_vars(referenced_objects_read)
    /\ WF_vars(referenced_objects_lf) /\ WF_vars(referenced_objects_join)
    /\ WF_vars(referenced_objects_wait)

(***************************************************************************)
(* SpecStable: smudge is run on a placeholder, and clean on what smudge    *)
(* wrote, under the same version and against the same store, as when git   *)
(* checks a file out and stages it again.                                  *)
(***************************************************************************)

\* The contents the stores hold, two of them themselves as long as a
\* placeholder and beginning with its prefix.
StableContents == { Hello, Big, Empty, HelloV1, HelloV2 }

\* The store that holds the blobs of S, each under its digest.
StoreOf(S) ==
    [d \in { sha1(c) : c \in S } |->
        [data |-> CHOOSE c \in S : sha1(c) = d, mode |-> ChmodMode]]

\* A store whose one file does not hold what its name says.
StoreCorrupted == [d \in { sha1(Hello) } |-> [data |-> Big, mode |-> ChmodMode]]

\* The stores: any of the blobs, or the corrupted file.
StableStores == { StoreOf(S) : S \in SUBSET StableContents } \cup { StoreCorrupted }

\* The placeholders of the contents in a version, and one whose byte count
\* is not the length of its blob.
StablePlaceholders(version) ==
    IF version = 1
    THEN { encode_v1(sha1(c), Len(c)) : c \in StableContents }
    ELSE { encode_v2(sha1(c), Len(c)) : c \in StableContents }
            \cup { encode_v2(sha1(Hello), Len(Big)) }

InitStable ==
    /\ objdir \in StableStores
    /\ repo = [HEAD |-> { }, all |-> { }]
    /\ clean = [p \in Procs |-> CleanIdle]
    /\ gc = GcIdle
    /\ last = LastNone
    /\ worktree = Worktree0
    /\ remote = << >>
    /\ nops = 0
    /\ config = Configured
    /\ pipe = PipeIdle
    /\ ifilter = FilterIdle
    /\ codec = CodecIdle

\* git runs the clean filter on the file the smudge filter has written.
filter_clean_of_smudge ==
    /\ last.op = "smudge"
    /\ last.status = "ok"
    /\ filter_clean_start(1, last.out, last.version)
    /\ UNCHANGED nops

NextStable ==
    \/ \E v \in Versions : \E x \in StablePlaceholders(v) :
          Quiet /\ cmd_filter_smudge(x, v) /\ UNCHANGED nops
    \/ filter_clean_of_smudge
    \/ filter_clean_block(1)
    \/ filter_clean_exists(1)
    \/ filter_clean_remove(1)
    \/ filter_clean_chmod(1)
    \/ filter_clean_rename(1)
    \/ filter_clean_write(1)
    \/ filter_clean_finally(1)

SpecStable == InitStable /\ [][NextStable]_vars

(***************************************************************************)
(* The pipeline of one entry of index-filter (lines 593-614)               *)
(*                                                                         *)
(* git cat-file blob | filter_clean in a thread | git hash-object, the     *)
(* main thread reading hash-object's stdout.  Both pipes are binary: the   *)
(* worker is handed bytes by catfile.stdout and writes to a stdin that     *)
(* takes bytes only.                                                       *)
(***************************************************************************)

\* The blobs an entry may name.
FilterBlobs == { Empty, Hello, Big, HelloV1, HelloV2, Binary }

\* Lines 593-608: both children are started, then the thread; the main thread
\* goes on to hashobject.stdout.read() of line 609.
index_filter_popen(blobhash, version) ==
    /\ ifilter.pc = "idle"
    /\ ifilter' = [ifilter EXCEPT
           !.pc = "pipeline",
           !.pl = [PipelineIdle EXCEPT
                      !.blob = blobhash, !.version = version,
                      !.catfile = "running", !.todo = cat_file(blobhash),
                      !.worker = "mkstemp", !.stdin = "open",
                      !.hashobject = "running", !.main = "read"]]
    /\ UNCHANGED << objdir, repo, clean, gc, last, worktree, remote, nops, config, codec, pipe >>

\* git cat-file writes the next block of the blob to its stdout, when the
\* pipe has room for it.
cat_file_write ==
    LET pl == ifilter.pl IN
    /\ pl.catfile = "running"
    /\ pl.todo # << >>
    /\ Len(pl.out) < PipeCap
    /\ ifilter' = [ifilter EXCEPT
           !.pl.out = pl.out \o << read(pl.todo, BLOCK_SIZE) >>,
           !.pl.todo = SubSeq(pl.todo, Len(read(pl.todo, BLOCK_SIZE)) + 1, Len(pl.todo))]
    /\ UNCHANGED << objdir, repo, clean, gc, last, worktree, remote, nops, config, codec, pipe >>

\* git cat-file has written the blob: it exits, which closes its stdout.
cat_file_exit ==
    LET pl == ifilter.pl IN
    /\ pl.catfile = "running"
    /\ pl.todo = << >>
    /\ ifilter' = [ifilter EXCEPT !.pl.catfile = "exited", !.pl.eof = TRUE]
    /\ UNCHANGED << objdir, repo, clean, gc, last, worktree, remote, nops, config, codec, pipe >>

\* The worker enters filter_clean: tempfile.mkstemp(dir=self.objdir).
dofilter_mkstemp ==
    LET pl == ifilter.pl IN
    /\ pl.worker = "mkstemp"
    /\ \E tmpname \in { mkstemp(objdir, { }) } :
          /\ objdir' = write(objdir, tmpname, [data |-> << >>, mode |-> "600"])
          /\ ifilter' = [ifilter EXCEPT !.pl.worker = "loop", !.pl.tmpname = tmpname]
    /\ UNCHANGED << repo, clean, gc, last, worktree, remote, nops, config, codec, pipe >>

\* for block in readblocks(instream): the next block of catfile.stdout, or
\* the end of the loop at its end of file.
dofilter_readblock ==
    LET pl == ifilter.pl IN
    /\ pl.worker = "loop"
    /\ IF pl.out # << >>
       THEN ifilter' = [ifilter EXCEPT !.pl.worker = "block", !.pl.block = Head(pl.out),
                                       !.pl.out = Tail(pl.out)]
       ELSE /\ pl.eof
            /\ ifilter' = [ifilter EXCEPT !.pl.worker = "digest"]
    /\ UNCHANGED << objdir, repo, clean, gc, last, worktree, remote, nops, config, codec, pipe >>

\* The body of the loop on a block of bytes.  A first block as long as a
\* placeholder goes to decode_clean, where bytes.startswith is given the str
\* prefix: TypeError.  Any other block reaches block.encode("utf-8"), which
\* bytes does not have: AttributeError.  Either way the exception unwinds to
\* the finally clause with nothing written.
dofilter_block ==
    LET pl == ifilter.pl IN
    /\ pl.worker = "block"
    /\ ifilter' = [ifilter EXCEPT
           !.pl.worker = "finally",
           !.pl.nblocks = pl.nblocks + 1,
           !.pl.exc = IF pl.nblocks = 0 /\ Len(pl.block) = magiclen(pl.version)
                      THEN "TypeError" ELSE "AttributeError"]
    /\ UNCHANGED << objdir, repo, clean, gc, last, worktree, remote, nops, config, codec, pipe >>

\* After the loop (an empty blob only): the digest, then the blob is admitted
\* (lines 195-204) and the placeholder, a str, is written to hash-object's
\* binary stdin: TypeError, with cached already True.
dofilter_digest ==
    LET pl == ifilter.pl
        objfile == sha1(<< >>)
    IN  /\ pl.worker = "digest"
        /\ objdir' = IF exists(objdir, objfile)
                     THEN remove(objdir, pl.tmpname)
                     ELSE rename([objdir EXCEPT ![pl.tmpname].mode = ChmodMode],
                                 pl.tmpname, objfile)
        /\ ifilter' = [ifilter EXCEPT !.pl.worker = "finally", !.pl.cached = TRUE,
                                      !.pl.exc = "TypeError"]
        /\ UNCHANGED << repo, clean, gc, last, worktree, remote, nops, config, codec, pipe >>

\* finally: if not cached: os.remove(tmpname).  The exception then leaves
\* filter_clean and dofilter, whose next statement, hashobject.stdin.close()
\* of line 605, is not run; the thread ends.
dofilter_finally ==
    LET pl == ifilter.pl IN
    /\ pl.worker = "finally"
    /\ objdir' = IF pl.cached THEN objdir ELSE remove(objdir, pl.tmpname)
    /\ ifilter' = [ifilter EXCEPT !.pl.worker = IF pl.exc # "" THEN "raised" ELSE "close"]
    /\ UNCHANGED << repo, clean, gc, last, worktree, remote, nops, config, codec, pipe >>

\* Line 605, the statement of dofilter after filter_clean has returned:
\* hashobject.stdin.close(), and the thread ends.  filter_clean returns on no
\* path here, so that this step and the two below are enabled in no state
\* of the pipeline; they are what the main thread waits for.
dofilter_close ==
    LET pl == ifilter.pl IN
    /\ pl.worker = "close"
    /\ ifilter' = [ifilter EXCEPT !.pl.worker = "returned", !.pl.stdin = "closed"]
    /\ UNCHANGED << objdir, repo, clean, gc, last, worktree, remote, nops, config, codec, pipe >>

\* git hash-object --stdin reads its stdin to the end of file, writes the
\* name of the blob to its stdout and exits.  The end of file comes only
\* when the worker has closed the pipe.
hash_object_exit ==
    LET pl == ifilter.pl IN
    /\ pl.hashobject = "running"
    /\ pl.stdin = "closed"
    /\ ifilter' = [ifilter EXCEPT !.pl.hashobject = "exited"]
    /\ UNCHANGED << objdir, repo, clean, gc, last, worktree, remote, nops, config, codec, pipe >>

\* Lines 609-614: hashobject.stdout.read() returns at the end of file of
\* hash-object's stdout; the children are waited on, the worker is joined
\* and the cache file is written.
index_filter_read ==
    LET pl == ifilter.pl IN
    /\ pl.main = "read"
    /\ pl.hashobject = "exited"
    /\ pl.catfile = "exited"
    /\ pl.worker \in { "raised", "returned" }
    /\ ifilter' = [ifilter EXCEPT !.pl.main = "done"]
    /\ UNCHANGED << objdir, repo, clean, gc, last, worktree, remote, nops, config, codec, pipe >>

\* The cache-miss branch entered for a blob, the object directory holding
\* the empty blob already or nothing.
InitFilter ==
    /\ objdir \in { << >>, StoreOf({ Empty }) }
    /\ repo = [HEAD |-> { }, all |-> { }]
    /\ clean = [p \in Procs |-> CleanIdle]
    /\ gc = GcIdle
    /\ last = LastNone
    /\ worktree = Worktree0
    /\ remote = << >>
    /\ nops = 0
    /\ config = Configured
    /\ codec = CodecIdle
    /\ pipe = PipeIdle
    /\ ifilter = FilterIdle

NextFilter ==
    \/ \E data \in FilterBlobs, version \in Versions :
          index_filter_popen(hash_object(data), version)
    \/ cat_file_write
    \/ cat_file_exit
    \/ dofilter_mkstemp
    \/ dofilter_readblock
    \/ dofilter_block
    \/ dofilter_digest
    \/ dofilter_finally

SpecFilter == InitFilter /\ [][NextFilter]_vars

(***************************************************************************)
(* index-filter run on an index                                            *)
(***************************************************************************)

\* Any index over the entries, before a first run: nothing staged, no cache
\* file written yet.
InitIndex ==
    /\ objdir = << >>
    /\ repo = [HEAD |-> { }, all |-> { }]
    /\ clean = [p \in Procs |-> CleanIdle]
    /\ gc = GcIdle
    /\ last = LastNone
    /\ worktree = Worktree0
    /\ remote = << >>
    /\ nops = 0
    /\ config = Configured
    /\ codec = CodecIdle
    /\ pipe = PipeIdle
    /\ \E index \in SUBSET IndexEntries : ifilter = [FilterIdle EXCEPT !.index = index]

NextIndex ==
    \/ \E filelist \in FileLists, manage_gitattributes \in BOOLEAN :
          cmd_index_filter(filelist, manage_gitattributes)
    \/ index_filter_return

SpecIndex == InitIndex /\ [][NextIndex]_vars

(***************************************************************************)
(* Properties                                                              *)
(***************************************************************************)

\* A placeholder as the format defines it: the prefix, a 40-hex digest and,
\* in V2, the size right-aligned in 20 columns, one line.
IsPlaceholder(x) ==
    LET r == decoded(x, TRUE) IN
    /\ r.tag = "ok"
    /\ IsDigest(r.digest)
    /\ \/ x = encode_v1(r.digest, r.bytes)
       \/ r.bytes # None /\ x = encode_v2(r.digest, r.bytes)

\* What filter_clean takes for a placeholder not yet smudged: an input as
\* long as a placeholder of the version written that begins with the prefix.
TakenForHanging(x, version) == Len(x) = magiclen(version) /\ startswith(x, cookie)

\* filter_clean has returned without raising.
Returned(p) == clean[p].pc = "done" /\ clean[p].exc = ""

\* The store holds the content under its digest, and the clean output is
\* its placeholder and nothing else.
Admitted(p) ==
    LET c == clean[p] IN
    /\ exists(objdir, sha1(c.instream))
    /\ objdir[sha1(c.instream)].data = c.instream
    /\ c.out = encode(c.version, sha1(c.instream), Len(c.instream))

C1_FakeWitness ==
    /\ Returned(1)
    /\ clean[1].instream = Fake
    /\ clean[1].out = Fake
    /\ ~exists(objdir, sha1(Fake))

\* smudge, run under version v on what filter_clean wrote and against the
\* store as it stands, writes the content filter_clean read.
RoundTrip(p, v) ==
    smudge(objdir, clean[p].out, v) = [out |-> clean[p].instream, status |-> "ok"]

C2_HangingWitness ==
    /\ Returned(1)
    /\ clean[1].instream = HelloV2
    /\ clean[1].version = 2
    /\ smudge(objdir, clean[1].out, 2).out = Hello

\* The files of the store that are no temp files of a clean.
Blobs(dir) == [n \in DOMAIN dir \ TmpNames |-> dir[n]]

\* The input is a placeholder of the length of the version written.
Hanging(c) == IsPlaceholder(c.instream) /\ Len(c.instream) = magiclen(c.version)

\* C5: when the input of clean is a placeholder of the magic length, clean
\* returns having written that placeholder and nothing else to its output,
\* no step of it adds, removes or changes a file of the store other than
\* its temp file, and once it is over no temp file is left.
C5_Hanging ==
    /\ [](Returned(1) /\ Hanging(clean[1]) => clean[1].out = clean[1].instream)
    /\ [](clean[1].pc = "done" /\ Hanging(clean[1]) => DOMAIN objdir \cap TmpNames = { })
    /\ [][clean'[1].pc # "idle" /\ Hanging(clean'[1]) => Blobs(objdir') = Blobs(objdir)]_vars

\* A placeholder was cleaned with its blob not in the store.
C5_Witness ==
    /\ Returned(1)
    /\ clean[1].instream = HelloV2
    /\ clean[1].version = 2
    /\ clean[1].ishanging
    /\ clean[1].out = HelloV2
    /\ objdir = << >>

\* C8: once filter_clean is over, by returning (hanging or not, the blob new
\* or in the store already) or by raising at a block write, chmod, rename or
\* the write of the placeholder, its temp file is no file of the object
\* directory.
C8_NoTemp == clean[1].pc = "done" => ~exists(objdir, clean[1].tmpname)

\* The rename (or the chmod before it) failed after the whole input was
\* written to the temp file.
C8_Witness ==
    /\ clean[1].pc = "done"
    /\ clean[1].exc = "IOError"
    /\ ~clean[1].cached
    /\ clean[1].instream = Big
    /\ clean[1].bytes = Len(Big)
    /\ ~exists(objdir, clean[1].tmpname)

\* C3: in every state reached by clean, smudge, gc, verify and checkout
\* interleaved step by step, with clean killed at any step, every file of
\* the store named by a 40-hex digest holds contents whose sha1 is its name.
C3_StoreInvariant == \A n \in DOMAIN objdir : IsDigest(n) => sha1(objdir[n].data) = n

\* The blob is in the store next to the half-written temp file a killed
\* clean left behind.
C3_Witness ==
    /\ exists(objdir, sha1(Big))
    /\ \E t \in TmpNames \cap DOMAIN objdir :
          /\ objdir[t].data = SubSeq(Big, 1, BLOCK_SIZE)
          /\ \A p \in Procs : clean[p].tmpname # t

\* C4: of two cleans run side by side, under every interleaving of their
\* steps, each ends without raising, with the content in the store under
\* its digest and the placeholder of the content as its output (the same
\* for both when the content is the same); once neither runs no temp file
\* is left; and a smudge between any two of their steps reads the whole
\* content or finds no blob, never a part of it.
C4_ConcurrentCleans ==
    /\ \A p \in Procs : clean[p].pc = "done" => clean[p].exc = "" /\ Admitted(p)
    /\ (\A p \in Procs : clean[p].pc \in { "idle", "done" }) => DOMAIN objdir \cap TmpNames = { }
    /\ \A c \in RaceContents :
          last.op = "smudge" /\ last.input = encode_v2(sha1(c), Len(c))
              => last.status = "ok" /\ last.out \in { c, last.input }
    /\ \A n \in DOMAIN objdir : IsDigest(n) => sha1(objdir[n].data) = n

\* Both cleans of the same two-block content are over.
C4_Witness ==
    /\ \A p \in Procs : Returned(p) /\ clean[p].instream = Big /\ clean[p].out = BigV2
    /\ DOMAIN objdir = { sha1(Big) }
    /\ objdir[sha1(Big)].data = Big

\* C6 as stated: for every input that is no valid placeholder, whatever its
\* length and whether or not it begins with the placeholder prefix, smudge
\* writes exactly the input and ends without error.
C6_AsStated ==
    last.op = "smudge" /\ ~IsPlaceholder(last.input)
        => last.status = "ok" /\ last.out = last.input

\* smudge raised on the prefix followed by one token.
C6_Witness ==
    /\ last.op = "smudge"
    /\ last.input = CookieX
    /\ last.version = 2
    /\ last.status = "TypeError"

\* C7 as stated: when the input of smudge is a placeholder, V1 or V2,
\* whatever the version written, and the blob of its digest is not in the
\* store, smudge writes the input unchanged and ends without error.
C7_AsStated ==
    /\ last.op = "smudge"
    /\ IsPlaceholder(last.input)
    /\ ~exists(objdir, decoded(last.input, TRUE).digest)
    => last.status = "ok" /\ last.out = last.input

\* smudge raised on a V1 placeholder whose blob is missing.
C7_Witness ==
    /\ last.op = "smudge"
    /\ last.input = HelloV1
    /\ last.version = 2
    /\ ~exists(objdir, sha1(Hello))
    /\ last.status = "TypeError"

\* What gc has removed so far.
Removed == gc.garbage \ gc.todo

\* C9: gc takes for garbage the files of the store that HEAD's history does
\* not reference, the set status without --all reports as garbage; it
\* removes these and no other file, leaves every referenced file of the
\* store as it is, neither adds nor changes a file, and ends with no
\* unreferenced file left, so that a second gc finds nothing to remove.
C9_Gc ==
    /\ [](gc.pc \in { "remove", "done" }
            => /\ gc.garbage \cap referenced_objects(repo.HEAD) = { }
               /\ DOMAIN objdir \ referenced_objects(repo.HEAD) = gc.todo
               /\ Removed \cap DOMAIN objdir = { })
    /\ [](gc.pc = "done"
            => /\ gc.status = "ok"
               /\ gc.todo = { }
               /\ catalog_objects(objdir) \ referenced_objects(repo.HEAD) = { })
    /\ [](last.op = "status" /\ ~last.all
            => last.garbage = DOMAIN objdir \ referenced_objects(repo.HEAD))
    /\ [][gc.pc = "idle" /\ gc'.pc = "remove"
            => gc'.garbage = DOMAIN objdir \ referenced_objects(repo.HEAD)]_vars
    /\ [][gc.pc = "remove"
            => /\ DOMAIN objdir' \subseteq DOMAIN objdir
               /\ DOMAIN objdir \ DOMAIN objdir' \subseteq gc.garbage
               /\ \A n \in DOMAIN objdir' : objdir'[n] = objdir[n]
               /\ \A n \in DOMAIN objdir \cap referenced_objects(repo.HEAD) :
                     n \in DOMAIN objdir']_vars

\* gc has removed a blob HEAD does not reference and kept one it does.
C9_Witness ==
    /\ gc.pc = "done"
    /\ gc.garbage = { sha1(Hello) }
    /\ DOMAIN objdir = { sha1(Big) }
    /\ objdir[sha1(Big)].data = Big

\* The step is one of gc's loop.
GcStep == gc.pc = "remove" /\ gc' # gc

\* The step is smudge, status, verify, push or checkout.
ReadOnlyStep ==
    last.op = "none" /\ last'.op \in { "smudge", "status", "verify", "push", "checkout" }

\* C10 as stated: a file leaves the store only in a step of gc and only
\* when HEAD's history does not reference it; smudge, status, verify, push
\* and checkout leave the store as it is.
C10_AsStated ==
    [][/\ \A n \in DOMAIN objdir \ DOMAIN objdir' :
             GcStep /\ n \notin referenced_objects(repo.HEAD)
       /\ ReadOnlyStep => objdir' = objdir]_vars

\* C10: a file named by a digest leaves the store only in a step of gc and
\* only when HEAD's history does not reference it; any other file that
\* leaves the store in a step that is not gc's is the temp file of the clean
\* taking the step; smudge, status, verify, push and checkout leave the
\* store as it is.
C10_Frame ==
    [][/\ \A n \in DOMAIN objdir \ DOMAIN objdir' :
             \/ GcStep /\ n \notin referenced_objects(repo.HEAD)
             \/ /\ ~IsDigest(n)
                /\ \E p \in Procs : clean'[p] # clean[p] /\ n = clean[p].tmpname
       /\ ReadOnlyStep => objdir' = objdir]_vars

\* smudge has restored a blob, which is still in the store.
C10_Witness ==
    /\ last.op = "smudge"
    /\ last.input = BigV2
    /\ last.out = Big
    /\ exists(objdir, sha1(Big))
    /\ objdir[sha1(Big)].data = Big

(***************************************************************************)
(* C18: init                                                               *)
(***************************************************************************)

\* C18, as stated: once init has returned, filter.fat.clean is
\* 'git-fat filter-clean' and filter.fat.smudge is 'git-fat filter-smudge',
\* whatever the configuration held before.
C18_AsStated == last.op = "init" => config = Configured

\* init has returned from a configuration with filter.fat.clean alone set:
\* filter.fat.smudge is still not set.
C18_Witness ==
    /\ last.op = "init"
    /\ last.status = "already configured"
    /\ config = [clean |-> FilterClean, smudge |-> NotSet]

(***************************************************************************)
(* C16, C17: the placeholder codec                                         *)
(***************************************************************************)

\* C16, as stated: decode gives back the digest and the byte count that
\* encode was called with, under V1 as under V2.
C16_AsStated ==
    codec.pc = "decoded"
        => /\ codec.result.tag = "ok"
           /\ codec.result.digest = codec.digest
           /\ codec.result.bytes = codec.bytes

\* C16: decode gives back the digest encode was called with under either
\* version; it gives back the byte count under V2, and no byte count (None)
\* under V1, whose form does not hold it.
C16_RoundTrip ==
    codec.pc = "decoded"
        => /\ codec.result.tag = "ok"
           /\ codec.result.digest = codec.digest
           /\ codec.result.bytes = IF codec.version = 1 THEN None ELSE codec.bytes

\* A ten-digit byte count came back from a V2 placeholder.
C16_Witness ==
    /\ codec.pc = "decoded"
    /\ codec.version = 2
    /\ codec.bytes = 2147483647
    /\ codec.result = [tag |-> "ok", digest |-> codec.digest, bytes |-> 2147483647]

\* Under V1 the byte count did not come back.
C16_LostWitness ==
    /\ codec.pc = "decoded"
    /\ codec.version = 1
    /\ codec.bytes = 4096
    /\ codec.result.bytes = None

\* C17: whatever digest and byte count encode is called with, what it
\* returns under a version has the magic length computed for that version
\* at start-up from the dummy digest and the byte count 5, one of the
\* magic lengths.
C17_ConstantLength ==
    codec.pc \in { "encoded", "decoded" }
        => /\ Len(codec.string) = magiclen(codec.version)
           /\ Len(codec.string) \in magiclens

\* A V2 placeholder with a ten-digit byte count has been written.
C17_Witness ==
    /\ codec.pc = "encoded"
    /\ codec.version = 2
    /\ codec.bytes = 2147483647
    /\ codec.digest = sha1(Big)
    /\ Len(codec.string) = MagicLenV2

(***************************************************************************)
(* C15: verify                                                             *)
(***************************************************************************)

\* The files of the store whose name is not the hash of what they hold.
Corrupted == { d \in DOMAIN objdir : sha1(objdir[d].data) # d }

C15_SoundWitness ==
    /\ last.op = "verify"
    /\ last.status = "ok"
    /\ DOMAIN objdir = { sha1(Big) }

(***************************************************************************)
(* C13: push                                                               *)
(***************************************************************************)

\* C13: push runs rsync once, from the local object directory to the
\* remote, with on its stdin the digests that are both referenced and in
\* the store, and nothing else, with one NUL between two digests; the exit
\* code of rsync, when it is not 0, is the exit code of push, and after an
\* rsync that ended with 0 the remote holds every one of these digests.
C13_Push ==
    /\ [](last.op = "push"
            => /\ Len(last.rsync) = 1
               /\ last.rsync[1].src = "objdir"
               /\ last.rsync[1].dst = "remote"
               /\ from0(last.rsync[1].stdin)
                     = referenced_objects(rev_of(last.all)) \cap DOMAIN objdir
               /\ Len(last.rsync[1].stdin)
                     = LET n == Cardinality(referenced_objects(rev_of(last.all)) \cap DOMAIN objdir)
                       IN  IF n = 0 THEN 0 ELSE n * DigestLen + (n - 1)
               /\ last.exit = 0 => from0(last.rsync[1].stdin) \subseteq DOMAIN remote)
    /\ [][\A all \in BOOLEAN, rc \in ExitCodes :
             Quiet /\ cmd_push(all, rc) => last'.exit = rc /\ objdir' = objdir]_vars

\* push has handed two digests to rsync, which has copied the two blobs.
C13_Witness ==
    /\ last.op = "push"
    /\ last.exit = 0
    /\ from0(last.rsync[1].stdin) = { sha1(Big), sha1(Empty) }
    /\ DOMAIN remote = { sha1(Big), sha1(Empty) }
    /\ remote[sha1(Big)].data = Big

\* push has ended with the exit code of an rsync that failed.
C13_FailedWitness ==
    /\ last.op = "push"
    /\ last.exit = 23
    /\ from0(last.rsync[1].stdin) = { sha1(Big) }
    /\ remote = << >>

(***************************************************************************)
(* C14: checkout                                                           *)
(***************************************************************************)

\* C14, as stated: checkout deals with every tracked file that is a
\* placeholder: a file that is still a placeholder when checkout has ended
\* is one whose blob the store does not hold; a file whose blob the store
\* holds has had its mtime raised by 1 with its atime kept, and holds the
\* blob.
C14_AsStated ==
    last.op = "checkout" /\ last.status = "ok"
        => \A f \in DOMAIN worktree :
              /\ IsPlaceholder(worktree[f].data)
                    => ~exists(objdir, decoded(worktree[f].data, TRUE).digest)
              /\ IsPlaceholder(Worktree0[f].data)
                 /\ exists(objdir, decoded(Worktree0[f].data, TRUE).digest)
                    => /\ worktree[f].data = objdir[decoded(Worktree0[f].data, TRUE).digest].data
                       /\ worktree[f].mtime > Worktree0[f].mtime

\* checkout under V2 has restored the V2 placeholder and has left the V1
\* placeholder of the same blob as it was.
C14_Witness ==
    /\ last.op = "checkout"
    /\ last.version = 2
    /\ last.status = "ok"
    /\ exists(objdir, sha1(Big))
    /\ worktree["a"].data = Big
    /\ last.utime = { << "a", Worktree0["a"].atime, Worktree0["a"].mtime + 1 >> }
    /\ worktree["c"] = Worktree0["c"]
    /\ last.orphans = { }

(***************************************************************************)
(* C12: pull                                                               *)
(***************************************************************************)

\* The words of a command line of pull that come before "--".
BeforeDashDash(args) ==
    IF \A i \in 1..Len(args) : args[i] # DashDash
    THEN args
    ELSE SubSeq(args, 1, (CHOOSE i \in 1..Len(args) :
                             args[i] = DashDash /\ \A j \in 1..(i - 1) : args[j] # DashDash) - 1)

\* The digests C12 says pull hands to rsync: the revision and --all are
\* looked for before "--" alone.
Wanted(revs, all, patterns, version) ==
    IF all
    THEN referenced_objects(repo.all) \ DOMAIN objdir
    ELSE (referenced_objects(IF revs = << >> THEN repo.HEAD ELSE rev_list(revs[Len(revs)]))
            \ DOMAIN objdir)
         \cap { o[1] : o \in orphan_files(patterns, version) }

\* C12, as stated: pull hands to rsync exactly the digests referenced from
\* the revision (HEAD when none is given; every ref with --all) that the
\* store does not hold, all of them with --all and otherwise those of the
\* placeholders among the files the patterns name; none of them is in the
\* store; and only the words before "--" are taken for revisions.
C12_AsStated ==
    [][last.op = "none" /\ last'.op = "pull"
          => /\ Len(last'.rsync) = 1
             /\ from0(last'.rsync[1].stdin)
                   = Wanted(SelectSeq(BeforeDashDash(last'.args), IsRevArg),
                            \E i \in 1..Len(BeforeDashDash(last'.args)) :
                               BeforeDashDash(last'.args)[i] = DashAll,
                            parse_pull_patterns(last'.args), last'.version)
             /\ from0(last'.rsync[1].stdin) \cap DOMAIN objdir = { }]_vars

\* pull has been given a pattern of forty characters after "--": it has
\* ended in revparse, and rsync has not run.
C12_Witness ==
    /\ last.op = "pull"
    /\ last.args = << DashDash, Path40 >>
    /\ last.status = "CalledProcessError"
    /\ last.rsync = << >>

(***************************************************************************)
(* C11: push, clone, pull                                                  *)
(***************************************************************************)

\* C11, as stated: when the remote holds every blob that HEAD's history
\* references, a pull that has ended without error leaves every digest of
\* referenced_objects(HEAD) in the store, and the checkout that ends it
\* leaves no tracked file that is still a placeholder.
C11_AsStated ==
    /\ last.op = "pull"
    /\ last.status = "ok"
    /\ referenced_objects(repo.HEAD) \subseteq DOMAIN remote
    => /\ referenced_objects(repo.HEAD) \subseteq DOMAIN objdir
       /\ \A f \in DOMAIN worktree : ~IsPlaceholder(worktree[f].data)

\* In the clone, after init, pull with no word under V2 has ended without
\* error: of the two blobs the remote holds it has fetched one, and the
\* file that holds the V1 placeholder of that blob is still a placeholder.
C11_Witness ==
    /\ last.op = "pull"
    /\ last.args = << >>
    /\ last.version = 2
    /\ last.status = "ok"
    /\ DOMAIN remote = { sha1(Big), sha1(Empty) }
    /\ DOMAIN objdir = { sha1(Big) }
    /\ referenced_objects(repo.HEAD) = { sha1(Big), sha1(Empty) }
    /\ worktree["a"].data = Big
    /\ worktree["c"].data = BigV1

\* In the clone, pull --all under V2 has fetched every blob, and the file
\* that holds the V1 placeholder is still a placeholder.
C11_AllWitness ==
    /\ last.op = "pull"
    /\ last.args = << DashAll >>
    /\ last.version = 2
    /\ last.status = "ok"
    /\ from0(last.rsync[1].stdin) = { sha1(Big), sha1(Empty), sha1(Hello) }
    /\ DOMAIN objdir = { sha1(Big), sha1(Empty) }
    /\ worktree["a"].data = Big
    /\ worktree["c"].data = BigV1

(***************************************************************************)
(* C19, C20: referenced_objects                                            *)
(***************************************************************************)

\* The blobs of the history a call of referenced_objects runs on.
HistoryBlobsOf(history) ==
    { history[i].data : i \in { j \in 1..Len(history) : history[j].type = "blob" } }

\* The digests of the blobs of magic length that decode as a placeholder.
DecodedDigests(blobs) ==
    { decoded(b, FALSE).digest :
        b \in { c \in blobs : /\ Len(c) \in magiclens
                              /\ ~utf8_raises(c)
                              /\ decoded(c, FALSE).tag = "ok" } }

\* A history whose names are UTF-8 text and none of whose blobs of magic
\* length makes the caller's loop raise.
Utf8Paths(history) == \A i \in 1..Len(history) : ~utf8_raises(history[i].path)

WellFormed(history) ==
    /\ Utf8Paths(history)
    /\ referenced_raised(HistoryBlobsOf(history)) = { }

\* Step by step, referenced_objects ends as the commands take it to end:
\* it returns the set they use, or raises one of the exceptions they expect.
RefsAgree ==
    /\ pipe.pc = "returned"
        => /\ WellFormed(pipe.history)
           /\ pipe.referenced = referenced_objects(HistoryBlobsOf(pipe.history))
           /\ pipe.referenced = DecodedDigests(HistoryBlobsOf(pipe.history))
    /\ pipe.pc = "raised"
        => pipe.exc \in referenced_raised(HistoryBlobsOf(pipe.history))

\* When referenced_objects returns, both threads have ended and closed the
\* stdin of the child they feed, and the three children have exited and
\* been waited on.
RefsCleanedUp ==
    pipe.pc = "returned"
        => /\ pipe.cut_thread = "done"
           /\ pipe.filter_thread = "done"
           /\ pipe.p2_stdin_closed
           /\ pipe.p3_stdin_closed
           /\ pipe.p1 = "exited" /\ pipe.p2 = "exited" /\ pipe.p3 = "exited"
           /\ pipe.waited = { "p1", "p2", "p3" }

\* On a well-formed history no interleaving is stuck before the return.
RefsNoDeadlock ==
    pipe.pc \notin { "idle", "returned" } /\ WellFormed(pipe.history)
        => ENABLED NextRefs

\* Under SpecRefsFair: on a well-formed history the call returns, and on
\* any history whose names are UTF-8 text the caller leaves its loop.
RefsReturns ==
    (pipe.pc = "readline" /\ WellFormed(pipe.history)) ~> pipe.pc = "returned"

RefsEnds ==
    (pipe.pc = "readline" /\ Utf8Paths(pipe.history))
        ~> pipe.pc \in { "returned", "raised" }

\* C19, as stated: referenced_objects always returns; it never ends in any
\* other way, no interleaving of its stages is stuck before the return, and
\* at the return both threads have ended, each has closed its child's
\* stdin, and the three children have been waited on.
C19_AsStated ==
    /\ pipe.pc # "raised"
    /\ pipe.pc \notin { "idle", "returned" } => ENABLED NextRefs
    /\ RefsCleanedUp

\* A name that is no UTF-8 text has ended cut_sha1hash with its output
\* open, and nothing moves any more: git cat-file --batch-check waits for
\* the end of its input, and the caller for a line that never comes.
C19_Witness ==
    /\ pipe.pc = "readline"
    /\ ~ENABLED NextRefs
    /\ pipe.cut_thread = "raised"
    /\ ~pipe.p2_stdin_closed
    /\ pipe.p1 = "exited" /\ pipe.p2 = "running" /\ pipe.p3 = "running"
    /\ pipe.p2_stdin = << >> /\ pipe.p3_stdout = << >>
    /\ pipe.filter_thread = "iter"
    /\ pipe.waited = { }

\* The call has ended with an exception and nothing moves any more:
\* filter_gitfat_candidates is blocked in its write, git cat-file --batch
\* in its own, no child has been waited on.
C19_RaisedWitness ==
    /\ pipe.pc = "raised"
    /\ ~ENABLED NextRefs
    /\ pipe.filter_thread = "write"
    /\ pipe.p3 = "running"
    /\ pipe.p3_out # << >>
    /\ Len(pipe.p3_stdout) = PipeCap
    /\ pipe.waited = { }

\* C20, as stated: referenced_objects returns the digests decoded from the
\* reachable blobs of magic length that decode as a placeholder, and a
\* blob of magic length that does not decode is skipped without error.
C20_AsStated ==
    /\ pipe.pc # "raised"
    /\ pipe.pc = "returned"
        => pipe.referenced = DecodedDigests(HistoryBlobsOf(pipe.history))

\* A blob of magic length that holds the prefix and blanks has been read
\* after a placeholder was counted, and the call has ended with IndexError.
C20_Witness ==
    /\ pipe.pc = "raised"
    /\ pipe.exc = "IndexError"
    /\ Blank \in HistoryBlobsOf(pipe.history)
    /\ pipe.referenced = { sha1(Hello) }

\* A blob of magic length that is no UTF-8 text ends the call too.
C20_BinaryWitness ==
    /\ pipe.pc = "raised"
    /\ pipe.exc = "UnicodeDecodeError"
    /\ HistoryBlobsOf(pipe.history) = { Binary }

\* A blob of magic length without the prefix is skipped, and the call
\* returns the digests of the two placeholders of the history.
C20_SkippedWitness ==
    /\ pipe.pc = "returned"
    /\ Junk \in HistoryBlobsOf(pipe.history)
    /\ pipe.referenced = { sha1(Hello) }
    /\ { HelloV1, HelloV2 } \subseteq HistoryBlobsOf(pipe.history)

(***************************************************************************)
(* C21: pull and the exit code of rsync                                    *)
(***************************************************************************)

\* C21: a pull whose rsync has ended with a code other than 0 exits with
\* that code and leaves every tracked file as it was, contents and times,
\* with no call of os.utime; a pull that has touched or rewritten a tracked
\* file is one whose rsync has ended with 0.
C21_PullChecksOut ==
    [][\A args \in PullArgs, rc \in ExitCodes, v \in Versions :
          (Quiet /\ cmd_pull(args, rc, v) /\ last'.rsync # << >>)
              => /\ rc # 0 => /\ last'.exit = rc
                              /\ worktree' = worktree
                              /\ last'.utime = { }
                              /\ last'.status = "exit rc"
                 /\ (worktree' # worktree \/ last'.utime # { }) => rc = 0]_vars

\* rsync has ended with 23 and pull with it, while a tracked file is still
\* the placeholder of a blob the store holds: checkout would have restored
\* it.
C21_Witness ==
    /\ last.op = "pull"
    /\ last.rsync # << >>
    /\ last.exit = 23
    /\ last.status = "exit rc"
    /\ last.utime = { }
    /\ \E o \in orphan_files(<< >>, last.version) : exists(objdir, o[1])

\* rsync has ended with 0 and the checkout of pull has restored a file.
C21_RestoredWitness ==
    /\ last.op = "pull"
    /\ last.exit = 0
    /\ last.status = "ok"
    /\ last.utime # { }
    /\ worktree["a"].data = Big

(***************************************************************************)
(* C24: gc and verify beside a clean that is under way                     *)
(***************************************************************************)

\* The temp files of the filter-clean processes that are under way.
LiveTemps == { clean[p].tmpname : p \in { q \in Procs : clean[q].pc \notin { "idle", "done" } } }

\* C24, as stated: gc never takes the temp file of a clean that is under
\* way for garbage, verify never reports it as corrupted, and no clean
\* ends with the OSError of a temp file that is gone.
C24_AsStated ==
    /\ gc.pc = "remove" => gc.todo \cap LiveTemps = { }
    /\ last.op = "verify" => \A c \in last.corrupted : c[1] \notin LiveTemps
    /\ \A p \in Procs : clean[p].exc # "OSError"

\* A clean of a new content has ended with OSError and has written no
\* placeholder: its temp file was removed under it, and the store holds
\* neither the temp file nor the blob.
C24_Witness ==
    /\ clean[1].pc = "done"
    /\ clean[1].exc = "OSError"
    /\ clean[1].instream = Big
    /\ ~clean[1].cached
    /\ clean[1].out = << >>
    /\ ~exists(objdir, clean[1].tmpname)
    /\ ~exists(objdir, sha1(Big))

\* verify has reported the temp file of a clean that is under way.
C24_VerifyWitness ==
    /\ last.op = "verify"
    /\ last.status = "exit 1"
    /\ \E c \in last.corrupted : c[1] \in LiveTemps

(***************************************************************************)
(* C25: clean of smudge of a placeholder                                   *)
(***************************************************************************)

\* The placeholder smudge was run on names a blob that the store does not
\* hold, or holds with the contents its name says and, where the
\* placeholder gives a byte count, with that length.
StableEntry ==
    /\ last.op = "smudge"
    /\ \E r \in { decoded(last.input, FALSE) } :
          /\ r.tag = "ok"
          /\ exists(objdir, r.digest)
                => /\ sha1(objdir[r.digest].data) = r.digest
                   /\ r.bytes # None => Len(objdir[r.digest].data) = r.bytes

\* The blob the placeholder names is in the store and is itself, at the
\* length of a placeholder of the version written, a text that begins with
\* the placeholder prefix: clean takes such a text for a placeholder.
StableBlobHanging ==
    \E r \in { decoded(last.input, FALSE) } :
        /\ exists(objdir, r.digest)
        /\ TakenForHanging(objdir[r.digest].data, last.version)

C25_AbsentWitness ==
    /\ Returned(1)
    /\ last.op = "smudge"
    /\ last.input = BigV2
    /\ last.out = BigV2
    /\ clean[1].ishanging
    /\ clean[1].out = BigV2
    /\ objdir = << >>

\* The blob in the store is a text of 74 bytes that begins with the prefix:
\* smudge wrote it, clean under V2 has passed it through, and what comes
\* back is not the placeholder smudge was run on.
C25_HangingWitness ==
    /\ Returned(1)
    /\ last.op = "smudge"
    /\ last.version = 2
    /\ last.input = encode_v2(sha1(HelloV2), Len(HelloV2))
    /\ last.out = HelloV2
    /\ clean[1].out = HelloV2

\* clean's output for the contents of a blob: the placeholder of its digest
\* and length, or the contents themselves when they are a placeholder already.
Cleaned(data, version) ==
    LET d == decode_clean(SubSeq(data, 1, magiclen(version)))
    IN  IF Len(data) = magiclen(version) /\ d.tag = "ok" /\ d.digest # << >>
        THEN data
        ELSE encode(version, sha1(data), Len(data))

\* The entries index-filter is to rewrite: listed in the file, not a symlink.
Rewritten(index, filelist) == { e \in index : e.path \in filelist /\ e.mode # "120000" }

\* C22: when index-filter has run, update-index was given a new entry for
\* exactly the indexed entries whose path is in the file list and whose mode
\* is not 120000, each with the original mode, stage number and path and the
\* blob of the old contents run through clean, and the cache maps each such
\* old blob to its new one.
C22_AsStated ==
    ifilter.pc = "done" =>
        \E v \in Versions :
            /\ ifilter.staged =
                   { [e EXCEPT !.blobhash = hash_object(Cleaned(cat_file(e.blobhash), v))] :
                       e \in Rewritten(ifilter.index, ifilter.filelist) }
            /\ \A e \in Rewritten(ifilter.index, ifilter.filelist) :
                   << e.blobhash, hash_object(Cleaned(cat_file(e.blobhash), v)) >>
                       \in ifilter.cache

\* index-filter was run on an index with a regular file named in the list:
\* it ended in the TypeError of line 580, nothing staged, nothing cached.
C22_Witness ==
    /\ ifilter.pc = "done"
    /\ ifilter.status = "TypeError"
    /\ Rewritten(ifilter.index, ifilter.filelist) # { }
    /\ ifilter.staged = { }
    /\ ifilter.cache = { }

\* The one run that ends well: an empty index and no --manage-gitattributes.
C22_EmptyWitness ==
    /\ ifilter.pc = "done"
    /\ ifilter.status = "ok"
    /\ ifilter.index = { }

\* A step of the pipeline of one entry, whoever takes it.
PipelineStep ==
    \/ cat_file_write
    \/ cat_file_exit
    \/ dofilter_mkstemp
    \/ dofilter_readblock
    \/ dofilter_block
    \/ dofilter_digest
    \/ dofilter_finally
    \/ dofilter_close
    \/ hash_object_exit
    \/ index_filter_read

C23_AdmittedWitness ==
    /\ ifilter.pc = "pipeline"
    /\ ifilter.pl.worker = "raised"
    /\ ifilter.pl.cached
    /\ exists(objdir, sha1(cat_file(ifilter.pl.blob)))
    /\ ifilter.pl.main = "read"
    /\ ~ENABLED PipelineStep

====
